---------------------------- MODULE Spec2Model ----------------------------
(***************************************************************************)
(* Crawl / resume / repair / archive pipeline of the Shamela scrapers.     *)
(*                                                                         *)
(* The module holds one state machine per component.  Each component has   *)
(* its own specification (SpecGap, ...) over the same variables; the       *)
(* variables of the components a specification does not exercise stay at   *)
(* their idle values.                                                      *)
(***************************************************************************)
EXTENDS Integers, Sequences, FiniteSets, TLC

(***************************************************************************)
(* Bounds of the model.                                                    *)
(***************************************************************************)
MaxSection == 4        \* section numbers of the one book are 1..MaxSection

MaxBooks == 2          \* the archive builder sees books 1..MaxBooks
MaxUnits == 2          \* a book handed to the archive builder has at most MaxUnits files
MaxLedgerBooks == 12   \* book_ids of a crawl run are 1..MaxLedgerBooks
PageSize == 2          \* a fetched page reaches the disk in PageSize pieces
MaxKills == 2          \* times the process is killed and started again
MaxScrapePage == 3     \* the book scrape_book reads has pages 1..MaxScrapePage
MaxRuns == 2           \* calls of scrape_book on one output directory
NumWorkers == 2        \* browser workers / worker processes
NumItems == 3          \* books put on the shared queue
BookUnits == 2         \* pages a worker fetches and writes for one book
MaxClock == 5          \* time.time() runs from 0 to MaxClock
delay == 2             \* self.delay, in units of time
MaxRetries == 3        \* the largest max_retries a call is given
MaxErrors == 1         \* the most entries of metadata['errors']
MaxFileNumber == 11    \* the highest section a verified book has a file for
max_warc_size == 3     \* self.max_warc_size, scaled from 1000 MiB to the model's byte counts

Sections == 1..MaxSection
BookIds == 1..MaxBooks

(***************************************************************************)
(* What a fetch can return.  A page is described by the properties the     *)
(* code inspects: its length, which marker substrings / elements it        *)
(* holds (kind), and the forward-pagination control it carries (next).     *)
(*   kind "content"   : holds <div class="nass"> (a genuine book page)     *)
(*   kind "challenge" : holds 'Just a moment' / challenges.cloudflare.com  *)
(*   kind "notfound"  : holds '404 Page Not Found'                         *)
(*   kind "other"     : an error page with none of the markers             *)
(*   next = 0  : no enabled <a class="btn"> ">" link with an href          *)
(*   next = k  : such a link, leading to section k                         *)
(*   next = -1 : such a link whose href is neither "/..." nor "http..."    *)
(* None is a fetch that failed after all retries.                          *)
(***************************************************************************)
None == [kind |-> "None"]
NoFile == [kind |-> "NoFile"]

Lens == {50, 300, 600}

Pages ==
    [kind : {"content"}, len : Lens, next : (-1)..MaxSection]
      \cup [kind : {"challenge", "notfound", "other"}, len : {50, 600}, next : {0}]

\* A page of the book as the site serves it when nothing goes wrong.
GoodPage == [kind |-> "content", len |-> 600, next |-> 0]

\* soup.find('div', class_='book-page') or soup.find('div', class_='nass')
HasContentMarkers(p) == p.kind = "content"

Min(S) == CHOOSE x \in S : \A y \in S : x <= y
Max(S) == CHOOSE x \in S : \A y \in S : x >= y

\* Python's sorted() of a set of integers, as a list.
RECURSIVE sorted(_)
sorted(S) == IF S = {} THEN <<>> ELSE <<Min(S)>> \o sorted(S \ {Min(S)})

Range(seq) == {seq[i] : i \in 1..Len(seq)}

VARIABLES
    books_dir,         \* the book's directory: section -> saved page, or NoFile
    total_pages,       \* metadata['total_pages'] in book_<id>_meta.json
    \* ---- gap repair (fill_missing_sections.py, find_missing_sections.py,
    \* ---- crawl_missing_section_1.py)
    fill_pc,           \* "idle" | "filling" | "done"
    gap_info,          \* what find_section_gaps returned to process_book
    detected,          \* what find_missing_sections returned (the detector)
    analyzed,          \* history: the sections on disk when the detector ran
    missing_sections,  \* the part of the list the fill loop has not visited yet
    filled_count,
    failed_count,
    fetch_log,         \* history: sections fetched by the running repair
    written,           \* history: sections a repair routine wrote, with the page
    S0,                \* history: the sections on disk when process_book began
    all_valid,         \* history: every repair fetch so far returned a valid page
    \* ---- archive builder (convert_to_warc.py)
    conv_pc,           \* "idle" | "converting" | "done"
    sequential_books,  \* the part of sequential_books convert_all has not visited yet
    warc_dir,          \* warc_dir: file number n -> bytes written to shamela-<n>.warc.gz
    manifests,         \* file number n -> the manifest saved beside shamela-<n>.warc.gz
    open_files,        \* the container files opened for writing and not closed
    current_warc,      \* current_warc_file / _writer / _path: a file number, 0 for None
    current_warc_size,
    warc_counter,
    cdx_entries,
    current_manifest,  \* current_manifest['books']
    cdx_file,          \* the rows of shamela.cdx, or NoIndex
    archived,          \* history: every unit this run wrote, its file's bytes and its container
    incomplete_books,  \* history: the books find_sequential_books found crawled but not complete
    open_peak,         \* history: the most container files that were open at one time
    rerun,             \* the script was started a second time on the same directories
    \* ---- progress ledger (crawl_all_html.py crawl_all_books,
    \* ---- crawl_all_html_parallel.py crawl_books_parallel)
    ledger_mode,       \* "sequential" | "parallel": which of the two runs
    ledger_pc,         \* "run" | "blocked" | "done"
    loaded_completed,  \* progress['completed_books'] as _load_progress read it
    idx,               \* sequential: the index the for loop is at
    n_done,            \* parallel: futures that have finished
    completed,         \* success_count / completed
    failed,            \* fail_count / failed
    progress,          \* entries this run appended to progress[...], as counts
    progress_file,     \* the same counts in crawl_progress.json on disk
    progress_lock,     \* parallel: the thread holding self.progress_lock, or "free"
    \* ---- writing section files (crawl_camoufox_parallel.py _save_html, crawl_book)
    save_pc,           \* "loop" | "writing" | "killed" | "done"
    unit_dir,          \* section -> pieces of the page in the file, or NoFile
    current_section,   \* the section crawl_book is at
    skipped,           \* history: sections a run found existing and did not fetch
    kills,             \* history: times the process was killed
    \* ---- scrape_book (shamela/page_scraper.py)
    scrape_pc,         \* "idle" (not in a call) | "loop"
    run,               \* calls of scrape_book started so far
    json_dir,          \* page number -> page_<n>.json, or NoFile
    overview_file,     \* page_i.json, or NoFile
    end_page,          \* the call's end_page; 0 is None
    resume,            \* the call's resume flag
    existing_pages,    \* the set _get_existing_pages returned
    current_page,
    consecutive_failures,
    iterations,
    pages,             \* the list the call returns, without the overview page
    overview,          \* whether the list starts with the overview page
    fetched,           \* history: pages this call asked the site for
    first_run,         \* history: what the first call asked for, returned and left on disk
    corrupted,         \* history: the page files damaged between two calls
    \* ---- crawl_book / resume_book of the four crawlers, on one book
    crawl_variant,     \* "threaded" | "resume" | "browser" | "http" | "none"
    crawl_pc,          \* "start" | "loop" | "returned"
    crawl_dir,         \* section -> the page saved in its file, or NoFile
    metadata,          \* the metadata dict: status, total_pages, number of errors
    current_url,       \* section of current_url (0 is None); current_section; page_num
    visited_urls,
    crawl_failures,    \* consecutive_failures
    returned,          \* what the call returned ("True", "False"), "nothing" while it runs
    last_unit,         \* history: what the last fetch of the call gave
    existing0,         \* history: the sections that had a file when the call started
    crawl_fetches,     \* history: the sections the call fetched
    first_fetch,       \* history: the first section the call fetched, 0 before
    timed_out,         \* history: a challenge was not solved within the wait
    \* ---- workers on one queue (crawl_camoufox_parallel.py browser_worker and
    \* ---- crawl_books_parallel; batch_scrape_parallel.py worker_process and main)
    queue_mode,        \* "browser" | "batch" | "none"
    book_queue,        \* the shared queue; 0 is the None put to stop a worker
    unfinished_tasks,  \* browser: the count book_queue.join() waits on
    stats_completed,   \* batch: stats['completed']
    workers,           \* worker -> [pc, book, left]
    sched_pc,          \* "collect" | "gather" | "joining" | "returned"
    should_stop,       \* batch: the should_stop flag of each process (0 is main)
    processed,         \* history: book -> times a worker carried it to the end
    killed_writing,    \* history: a worker was terminated while writing a page
    pulled_after_stop, \* history: a worker began a fetch after its should_stop was set
    results_queue,     \* results_queue of the batch run: the results put and not yet taken
    results,           \* the list main collects and saves
    \* ---- _rate_limit of crawl_all_html_parallel.py and fill_missing_sections.py,
    \* ---- called by the threads of one crawler
    clock,             \* time.time()
    last_request_time, \* thread -> time of its last request; -1 is "not in the dict"
    request_lock,      \* the thread holding request_lock, 0 when it is free
    limiter,           \* thread -> [pc, wake]
    waited_for_sleeper,\* history: time passed for a thread that was due, behind a sleeper
    \* ---- one call of _fetch_url (crawl_all_html_parallel.py, resume_incomplete_books.py)
    fetch_pc,          \* "attempt" | "backoff" | "returned" | "none"
    attempt,           \* the loop variable of "for attempt in range(max_retries)"
    max_retries,       \* the call's max_retries
    fetch_result,      \* what the call returned: None or the response text; Running before
    outcomes,          \* history: what each requests.get of the call gave
    waits,             \* history: the wait_time of each time.sleep of the call
    \* ---- the verifiers on one book: verify_completeness_final.py, check_batch_quality.py
    tier_files,        \* the sections that have a file
    tier_meta,         \* the book's metadata: status, total_pages, number of errors
    tier,              \* the list verify_completeness put the book in, "none" before
    quality,           \* the quality analyze_book gave the book, "none" before
    \* ---- verify_book of verify_by_next_button.py on one book directory
    button_files,      \* the sections that have a file
    last_button,       \* the next button on the page of the highest section
    verify_status,     \* the 'status' verify_book returned, "none" before
    verify_last,       \* the 'last_section' verify_book returned, 0 before
    \* ---- the control flow of scrape_book's loop on a book whose pages do not end
    loop_pc,           \* "idle" | "loop" | "returned"
    loop_end_page,     \* end_page, 0 for None
    loop_iterations,   \* iterations
    loop_failures,     \* consecutive_failures
    loop_page,         \* current_page
    loop_log           \* the messages the call has logged

disk_vars == <<books_dir, total_pages>>
gap_vars == <<fill_pc, gap_info, detected, analyzed, missing_sections, filled_count,
              failed_count, fetch_log, written, S0, all_valid>>

arch_vars == <<conv_pc, sequential_books, warc_dir, manifests, open_files, current_warc,
               current_warc_size, warc_counter, cdx_entries, current_manifest,
               cdx_file, archived, incomplete_books, open_peak,
               rerun>>

ledger_vars == <<ledger_mode, ledger_pc, loaded_completed, idx, n_done, completed, failed,
                 progress, progress_file, progress_lock>>

save_vars == <<save_pc, unit_dir, current_section, skipped, kills>>

scrape_vars == <<scrape_pc, run, json_dir, overview_file, end_page, resume, existing_pages,
                 current_page, consecutive_failures, iterations, pages, overview, fetched,
                 first_run, corrupted>>

crawl_vars == <<crawl_variant, crawl_pc, crawl_dir, metadata, current_url, visited_urls,
                crawl_failures, returned, last_unit, existing0, crawl_fetches,
                first_fetch, timed_out>>

queue_vars == <<queue_mode, book_queue, unfinished_tasks, stats_completed, workers,
                sched_pc, should_stop, processed, killed_writing, pulled_after_stop,
                results_queue, results>>

rate_vars == <<clock, last_request_time, request_lock, limiter, waited_for_sleeper>>

fetch_vars == <<fetch_pc, attempt, max_retries, fetch_result, outcomes, waits>>

tier_vars == <<tier_files, tier_meta, tier, quality>>

button_vars == <<button_files, last_button, verify_status, verify_last>>

loop_vars == <<loop_pc, loop_end_page, loop_iterations, loop_failures, loop_page, loop_log>>

vars == <<disk_vars, gap_vars, arch_vars, ledger_vars, save_vars, scrape_vars, crawl_vars,
          queue_vars, rate_vars, fetch_vars, tier_vars, button_vars, loop_vars>>

\* What each component leaves alone.
GapFrame == UNCHANGED <<arch_vars, ledger_vars, save_vars, scrape_vars, crawl_vars,
                          queue_vars, rate_vars, fetch_vars, tier_vars, button_vars,
                          loop_vars>>
ArchFrame == UNCHANGED <<disk_vars, gap_vars, ledger_vars, save_vars, scrape_vars, crawl_vars,
                          queue_vars, rate_vars, fetch_vars, tier_vars, button_vars,
                          loop_vars>>
LedgerFrame == UNCHANGED <<disk_vars, gap_vars, arch_vars, save_vars, scrape_vars, crawl_vars,
                          queue_vars, rate_vars, fetch_vars, tier_vars, button_vars,
                          loop_vars>>
SaveFrame == UNCHANGED <<disk_vars, gap_vars, arch_vars, ledger_vars, scrape_vars, crawl_vars,
                          queue_vars, rate_vars, fetch_vars, tier_vars, button_vars,
                          loop_vars>>
ScrapeFrame == UNCHANGED <<disk_vars, gap_vars, arch_vars, ledger_vars, save_vars, crawl_vars,
                          queue_vars, rate_vars, fetch_vars, tier_vars, button_vars,
                          loop_vars>>
QueueFrame == UNCHANGED <<disk_vars, gap_vars, arch_vars, ledger_vars, save_vars, scrape_vars,
                          crawl_vars, rate_vars, fetch_vars, tier_vars, button_vars,
                          loop_vars>>
CrawlFrame == UNCHANGED <<disk_vars, gap_vars, arch_vars, ledger_vars, save_vars, scrape_vars,
                          queue_vars, rate_vars, fetch_vars, tier_vars, button_vars,
                          loop_vars>>
RateFrame == UNCHANGED <<disk_vars, gap_vars, arch_vars, ledger_vars,
                          save_vars, scrape_vars, crawl_vars, queue_vars, fetch_vars,
                          tier_vars, button_vars, loop_vars>>
FetchFrame == UNCHANGED <<disk_vars, gap_vars, arch_vars, ledger_vars,
                          save_vars, scrape_vars, crawl_vars, queue_vars, rate_vars,
                          tier_vars, button_vars, loop_vars>>
TierFrame == UNCHANGED <<disk_vars, gap_vars, arch_vars, ledger_vars,
                          save_vars, scrape_vars, crawl_vars, queue_vars, rate_vars, fetch_vars,
                          button_vars, loop_vars>>
ButtonFrame == UNCHANGED <<disk_vars, gap_vars, arch_vars, ledger_vars,
                          save_vars, scrape_vars, crawl_vars, queue_vars, rate_vars, fetch_vars,
                          tier_vars, loop_vars>>
LoopFrame == UNCHANGED <<disk_vars, gap_vars, arch_vars, ledger_vars,
                          save_vars, scrape_vars, crawl_vars, queue_vars, rate_vars, fetch_vars,
                          tier_vars, button_vars>>

\* Sections for which a file book_<id>_section_<n>.html exists.
SectionsOnDisk(dir) == {s \in Sections : dir[s] # NoFile}

(***************************************************************************)
(* find_missing_sections.py: the detector.                                 *)
(***************************************************************************)
find_missing_sections(section_numbers) ==
    IF section_numbers = {}
    THEN [has_sections |-> FALSE, missing_sections |-> <<>>, missing_count |-> 0]
    ELSE LET min_section == Min(section_numbers)
             max_section == Max(section_numbers)
             expected_sections == min_section..max_section
             missing == sorted(expected_sections \ section_numbers)
         IN  [has_sections |-> TRUE, missing_sections |-> missing,
              missing_count |-> Len(missing)]

(***************************************************************************)
(* fill_missing_sections.py: MissingSectionsFiller.                        *)
(***************************************************************************)
find_section_gaps(sections) ==
    IF sections = {}
    THEN [has_sections |-> FALSE, missing_sections |-> <<>>, missing_count |-> 0]
    ELSE LET max_section == Max(sections)
             expected_sections == 1..max_section       \* set(range(1, max_section + 1))
             missing == sorted(expected_sections \ sections)
         IN  [has_sections |-> TRUE, missing_sections |-> missing,
              missing_count |-> Len(missing)]

\* "if html and len(html) > 500" and the content-marker test of the fill loop.
FillAccepts(html) ==
    /\ html # None
    /\ html.len > 500
    /\ HasContentMarkers(html)

\* _update_metadata: total_pages + new_sections_count.
UpdateMetadata(old_total, new_sections_count) == old_total + new_sections_count

\* The responses a repair fetch can get (the pagination control of the page
\* plays no part in repair, so one value of it is enough).
RepairResponses == {None} \cup {p \in Pages : p.next = 0}

GapInit ==
    /\ fill_pc = "idle"
    /\ gap_info = find_section_gaps({})
    /\ detected = find_missing_sections({})
    /\ analyzed = {}
    /\ missing_sections = <<>>
    /\ filled_count = 0
    /\ failed_count = 0
    /\ fetch_log = <<>>
    /\ written = {}
    /\ S0 = {}
    /\ all_valid = TRUE

\* A book directory as a crawl left it: some sections saved, the metadata
\* counting them.
DiskInit ==
    /\ books_dir \in [Sections -> {NoFile, GoodPage}]
    /\ total_pages = Cardinality(SectionsOnDisk(books_dir))

\* The book directory of a specification that does not touch it.
DiskIdle ==
    /\ books_dir = [s \in Sections |-> NoFile]
    /\ total_pages = 0

\* analyze_all_books, for the one book: the detector reads the directory.
AnalyzeBook ==
    /\ fill_pc = "idle"
    /\ detected' = find_missing_sections(SectionsOnDisk(books_dir))
    /\ analyzed' = SectionsOnDisk(books_dir)
    /\ UNCHANGED <<disk_vars, fill_pc, gap_info, missing_sections, filled_count,
                   failed_count, fetch_log, written, S0, all_valid>>

\* process_book up to the call of fill_missing_sections.
ProcessBook ==
    /\ fill_pc = "idle"
    /\ LET info == find_section_gaps(SectionsOnDisk(books_dir)) IN
        /\ gap_info' = info
        /\ S0' = SectionsOnDisk(books_dir)
        /\ fetch_log' = <<>>
        /\ all_valid' = TRUE
        /\ filled_count' = 0
        /\ failed_count' = 0
        /\ IF ~info.has_sections \/ info.missing_count = 0
           THEN /\ fill_pc' = "done"          \* status 'no_gaps'
                /\ missing_sections' = <<>>
           ELSE /\ fill_pc' = "filling"
                /\ missing_sections' = info.missing_sections
    /\ UNCHANGED <<disk_vars, detected, analyzed, written>>

\* One iteration of the loop of fill_missing_sections.
FillSection(html) ==
    /\ fill_pc = "filling"
    /\ missing_sections # <<>>
    /\ LET section == Head(missing_sections) IN
        /\ fetch_log' = Append(fetch_log, section)
        /\ all_valid' = (all_valid /\ html # None /\ html.kind = "content" /\ html.len > 500)
        /\ IF FillAccepts(html)
           THEN /\ books_dir' = [books_dir EXCEPT ![section] = html]
                /\ written' = written \cup {<<section, html>>}
                /\ filled_count' = filled_count + 1
                /\ UNCHANGED failed_count
           ELSE /\ failed_count' = failed_count + 1
                /\ UNCHANGED <<books_dir, written, filled_count>>
    /\ missing_sections' = Tail(missing_sections)
    /\ UNCHANGED <<total_pages, fill_pc, gap_info, detected, analyzed, S0>>

\* The end of fill_missing_sections and the return of process_book.
FillReturn ==
    /\ fill_pc = "filling"
    /\ missing_sections = <<>>
    /\ total_pages' = IF filled_count > 0
                      THEN UpdateMetadata(total_pages, filled_count)
                      ELSE total_pages
    /\ fill_pc' = "done"
    /\ UNCHANGED <<books_dir, gap_info, detected, analyzed, missing_sections, filled_count,
                   failed_count, fetch_log, written, S0, all_valid>>

(***************************************************************************)
(* crawl_missing_section_1.py: Section1Crawler.crawl_section_1.            *)
(***************************************************************************)
\* "if not html or len(html) < 500: return False"; anything else is saved.
Section1Accepts(html) ==
    /\ html # None
    /\ ~(html.len < 500)

crawl_section_1(html) ==
    /\ fill_pc = "idle"
    /\ books_dir[1] = NoFile              \* otherwise: already exists, skipping
    /\ IF Section1Accepts(html)
       THEN /\ books_dir' = [books_dir EXCEPT ![1] = html]
            /\ written' = written \cup {<<1, html>>}
            /\ total_pages' = total_pages + 1
       ELSE UNCHANGED <<books_dir, written, total_pages>>
    /\ UNCHANGED <<fill_pc, gap_info, detected, analyzed, missing_sections, filled_count,
                   failed_count, fetch_log, S0, all_valid>>

(***************************************************************************)
(* Claims about gap detection and repair.                                  *)
(***************************************************************************)
\* Gap = {min..max} \ SequenceSet, as a sorted list.
GapList(S) == IF S = {} THEN <<>> ELSE sorted((Min(S)..Max(S)) \ S)

\* C8 (as claimed): when every repair fetch returned a valid page, process_book
\* fetched exactly the sequences of the gap set {min(S)..max(S)} \ S, each once and
\* none of S, and the sections on disk afterwards are min(S)..max(S).
C8_GapFillExact ==
    (fill_pc = "done" /\ all_valid /\ S0 # {}) =>
        /\ fetch_log = GapList(S0)
        /\ Range(fetch_log) \cap S0 = {}
        /\ SectionsOnDisk(books_dir) = Min(S0)..Max(S0)

\* C9 (as claimed): for every non-empty S the detector and the repair tool both
\* return the sorted elements of {min(S)..max(S)} \ S, hence the same list.
C9_GapsUseObservedMin ==
    /\ (analyzed # {}) => detected.missing_sections = GapList(analyzed)
    /\ (fill_pc # "idle" /\ S0 # {}) => gap_info.missing_sections = GapList(S0)
    /\ (fill_pc # "idle" /\ S0 # {} /\ analyzed = S0) =>
           gap_info.missing_sections = detected.missing_sections

\* C10 (as claimed): every page a repair routine wrote holds the content markers.
C10_RepairWritesOnlyContent ==
    \A w \in written : HasContentMarkers(w[2])


(***************************************************************************)
(* convert_to_warc.py: ShamelaWARCConverter.                               *)
(*                                                                         *)
(* A file is a sequence of bytes.  The container shamela-<n>.warc.gz is    *)
(* modelled by the byte stream written through gzip.open(..., 'wb'):       *)
(* tell() of that object is the position in this uncompressed stream.      *)
(* The converter reads the book's files when it reaches the book, so the   *)
(* files of a book enter the model in the step that converts it.           *)
(***************************************************************************)
\* No shamela.cdx (a saved index always has rows: it is saved only "if self.cdx_entries").
NoIndex == <<>>

\* The bytes of one section file.
FileContents == {<<"a">>, <<"a", "b">>, <<"\r", "\n">>}

\* sorted(self.books_dir.glob(...)): the files of one book, in sorted order, each
\* with its section id.
RECURSIVE FileLists(_)
FileLists(n) ==
    IF n = 0 THEN {<<>>}
    ELSE FileLists(n - 1) \cup
         {Append(fs, [section_id |-> Len(fs) + 1, bytes |-> b]) :
              fs \in {f \in FileLists(n - 1) : Len(f) = n - 1}, b \in FileContents}

\* open(html_file, 'r', encoding='utf-8').read(): text mode translates "\r\n" and a
\* lone "\r" to "\n".
RECURSIVE ReadText(_)
ReadText(bytes) ==
    IF bytes = <<>> THEN <<>>
    ELSE IF Head(bytes) = "\r"
         THEN IF Len(bytes) > 1 /\ bytes[2] = "\n"
              THEN <<"\n">> \o ReadText(Tail(Tail(bytes)))
              ELSE <<"\n">> \o ReadText(Tail(bytes))
         ELSE <<Head(bytes)>> \o ReadText(Tail(bytes))

\* html.encode('utf-8'): one byte per character for the characters of the model.
EncodeUtf8(html) == html

\* What WARCWriter.write_record puts on the stream for a response record: the WARC
\* and HTTP header blocks, the payload, and the record's trailing blank lines.
WarcHeader == <<"WARC/1.0 ... HTTP/1.1 200 OK ...">>
WarcTrailer == <<"\r\n\r\n">>
WarcRecord(html_bytes) == WarcHeader \o html_bytes \o WarcTrailer

\* _get_book_size_estimate: the sum of st_size of the book's files.
RECURSIVE _get_book_size_estimate(_)
_get_book_size_estimate(html_files) ==
    IF html_files = <<>> THEN 0
    ELSE Len(Head(html_files).bytes) + _get_book_size_estimate(Tail(html_files))

\* The converter's fields that change while a book is written.
Writer == [dir |-> warc_dir, cur |-> current_warc, size |-> current_warc_size,
           counter |-> warc_counter, cdx |-> cdx_entries, manifest |-> current_manifest,
           saved |-> manifests, open |-> open_files, log |-> archived,
           peak |-> open_peak]

\* _save_manifest, for the file w.cur.
_save_manifest(w) ==
    IF w.cur = 0 THEN w
    ELSE [w EXCEPT !.saved = [n \in DOMAIN w.saved \cup {w.cur} |-> w.manifest]]

\* _open_new_warc_file: the previous file's manifest is saved if it lists a book,
\* then gzip.open creates (or truncates) the next file.  The previous file object
\* is not closed here.
_open_new_warc_file(w) ==
    LET w1 == IF w.cur # 0 /\ w.manifest # <<>> THEN _save_manifest(w) ELSE w
        n == w.counter
    IN  [w1 EXCEPT !.dir = [k \in DOMAIN w1.dir \cup {n} |-> IF k = n THEN <<>> ELSE w1.dir[k]],
                   !.cur = n,
                   !.open = @ \cup {n},
                   !.peak = IF Cardinality(w1.open \cup {n}) > @
                            THEN Cardinality(w1.open \cup {n}) ELSE @,
                   !.size = 0,
                   !.counter = n + 1,
                   !.manifest = <<>>]

\* _write_warc_record(url, html, timestamp, warc_filename).
_write_warc_record(w, url, html, warc_filename, raw) ==
    LET offset == Len(w.dir[w.cur])                  \* self.current_warc_file.tell()
        html_bytes == EncodeUtf8(html)
    IN  [w EXCEPT !.dir[w.cur] = @ \o WarcRecord(html_bytes),
                  !.size = @ + Len(html_bytes),
                  !.cdx = Append(@, [url |-> url, warc_file |-> warc_filename,
                                     offset |-> offset, length |-> Len(html_bytes)]),
                  !.log = @ \cup {[url |-> url, raw |-> raw, file |-> w.cur]}]

\* A rotation test without the size: a new file only when none is open.
NeedsNewWarc_NoSizeTest(w, book_size) ==
    w.cur = 0

\* The rotation test of convert_book, made once, before the book's first record.
NeedsNewWarc(w, book_size) ==
    \/ w.cur = 0                                     \* current_warc_writer is None
    \/ w.size + book_size > max_warc_size

\* The rotation test made before every record instead of once per book.
RECURSIVE WritePages_RotatePerRecord(_, _, _)
WritePages_RotatePerRecord(w, book_id, html_files) ==
    IF html_files = <<>> THEN w
    ELSE LET f == Head(html_files)
             w0 == IF NeedsNewWarc(w, Len(f.bytes)) THEN _open_new_warc_file(w) ELSE w
             w1 == _write_warc_record(w0, <<book_id, f.section_id>>, ReadText(f.bytes),
                                      w0.cur, f.bytes)
         IN  WritePages_RotatePerRecord(w1, book_id, Tail(html_files))

\* "for html_file in html_files": read the file, write its record.
RECURSIVE WritePages(_, _, _)
WritePages(w, book_id, html_files) ==
    IF html_files = <<>> THEN w
    ELSE LET f == Head(html_files)
             w1 == _write_warc_record(w, <<book_id, f.section_id>>, ReadText(f.bytes),
                                      w.cur, f.bytes)
         IN  WritePages(w1, book_id, Tail(html_files))

\* convert_book past its two checks.
ConvertPages(w, book_id, html_files) ==
    LET book_size == _get_book_size_estimate(html_files)
        w0 == IF NeedsNewWarc(w, book_size) THEN _open_new_warc_file(w) ELSE w
        w1 == WritePages(w0, book_id, html_files)
    IN  [w1 EXCEPT !.manifest = Append(@, [book_id |-> book_id, pages |-> Len(html_files)])]

\* url order of the rows: sorted(self.cdx_entries, key=lambda x: x['url']).  For the
\* one-digit ids of the model the order of the url strings is that of the pairs.
UrlBefore(u, v) == u[1] < v[1] \/ (u[1] = v[1] /\ u[2] <= v[2])

RECURSIVE SortByUrl(_)
SortByUrl(entries) ==
    IF entries = <<>> THEN <<>>
    ELSE LET i == CHOOSE i \in 1..Len(entries) :
                    /\ \A j \in 1..Len(entries) : UrlBefore(entries[i].url, entries[j].url)
                    /\ \A j \in 1..(i - 1) : entries[j].url # entries[i].url
             rest == [k \in 1..(Len(entries) - 1) |->
                         IF k < i THEN entries[k] ELSE entries[k + 1]]
         IN  <<entries[i]>> \o SortByUrl(rest)

ArchInit ==
    /\ conv_pc = "idle"
    /\ sequential_books = <<>>
    /\ warc_dir = <<>>
    /\ manifests = <<>>
    /\ open_files = {}
    /\ current_warc = 0
    /\ current_warc_size = 0
    /\ warc_counter = 1
    /\ cdx_entries = <<>>
    /\ current_manifest = <<>>
    /\ cdx_file = NoIndex
    /\ archived = {}
    /\ incomplete_books = {}
    /\ open_peak = 0
    /\ rerun = FALSE

SetWriter(w) ==
    /\ warc_dir' = w.dir
    /\ current_warc' = w.cur
    /\ current_warc_size' = w.size
    /\ warc_counter' = w.counter
    /\ cdx_entries' = w.cdx
    /\ current_manifest' = w.manifest
    /\ manifests' = w.saved
    /\ open_files' = w.open
    /\ archived' = w.log
    /\ open_peak' = w.peak

\* find_sequential_books: the ids, in ascending order, of the books whose metadata
\* file exists with status 'complete'.  A book without a metadata file and a book
\* with another status are both passed over ("continue").
find_sequential_books(complete, incomplete) ==
    /\ conv_pc = "idle"
    /\ sequential_books' = sorted(complete)
    /\ incomplete_books' = incomplete
    /\ conv_pc' = IF complete = {} THEN "done" ELSE "converting"   \* "No complete books found"
    /\ UNCHANGED <<warc_dir, manifests, open_files, current_warc, current_warc_size,
                   warc_counter, cdx_entries, current_manifest, cdx_file, archived,
                   open_peak, rerun>>

\* The end of convert_all: close the last file, save its manifest, save the index.
FinishConvert(w) ==
    LET w1 == IF w.cur # 0 THEN _save_manifest([w EXCEPT !.open = @ \ {w.cur}]) ELSE w
    IN  /\ SetWriter(w1)
        /\ cdx_file' = IF w1.cdx # <<>> THEN SortByUrl(w1.cdx) ELSE cdx_file
        /\ conv_pc' = "done"
        /\ sequential_books' = <<>>
        /\ UNCHANGED <<incomplete_books, rerun>>

\* One iteration of "for book_id, metadata in sequential_books" of convert_all, with
\* the files and the metadata found for that book; the last iteration, and a failed
\* convert_book, run on into the end of convert_all.
convert_book(html_files, meta_total_pages) ==
    /\ conv_pc = "converting"
    /\ sequential_books # <<>>
    /\ LET book_id == Head(sequential_books)
           success == html_files # <<>> /\ Len(html_files) = meta_total_pages
           w == IF success THEN ConvertPages(Writer, book_id, html_files) ELSE Writer
       IN  IF success /\ Tail(sequential_books) # <<>>
           THEN /\ SetWriter(w)
                /\ sequential_books' = Tail(sequential_books)
                /\ UNCHANGED <<conv_pc, cdx_file, incomplete_books, rerun>>
           ELSE FinishConvert(w)

\* The script is started again on the same directories: a new converter object
\* (__init__), the files of warc_dir as the last run left them.
NewRun ==
    /\ conv_pc = "done"
    /\ ~rerun
    /\ rerun' = TRUE
    /\ conv_pc' = "idle"
    /\ sequential_books' = <<>>
    /\ open_files' = {}
    /\ current_warc' = 0
    /\ current_warc_size' = 0
    /\ warc_counter' = 1
    /\ cdx_entries' = <<>>
    /\ current_manifest' = <<>>
    /\ archived' = {}
    /\ incomplete_books' = {}
    /\ open_peak' = 0
    /\ UNCHANGED <<warc_dir, manifests, cdx_file>>

(***************************************************************************)
(* Claims about the archive builder and its index.                         *)
(***************************************************************************)
\* The bytes [offset, offset + length) of a container stream.
Slice(stream, offset, length) == SubSeq(stream, offset + 1, offset + length)

\* C6 (as claimed): when convert_all has returned, every archived unit has exactly
\* one index row, and the bytes [offset, offset + length) of the container the row
\* names are the unit's original raw bytes.
C6_IndexSliceIsUnit ==
    (conv_pc = "done") =>
        \A u \in archived :
            LET rows == {i \in 1..Len(cdx_file) : cdx_file[i].url = u.url} IN
                /\ Cardinality(rows) = 1
                /\ \A i \in rows :
                       Slice(warc_dir[cdx_file[i].warc_file], cdx_file[i].offset,
                             cdx_file[i].length) = u.raw

\* C7: all archive records of one item are in one container file.
C7_ItemInOneContainer ==
    \A u, v \in archived : (u.url[1] = v.url[1]) => (u.file = v.file)

\* C7's case: an item of several records written after a rotation.
C7_Witness ==
    \E u, v \in archived : u.url[1] = v.url[1] /\ u.url[2] # v.url[2] /\ u.file > 1

\* The response records of a container stream, and their payload bytes.
Records(stream) == Cardinality({i \in 1..Len(stream) : stream[i] = WarcHeader[1]})

PayloadSize(stream) == Len(stream) - Records(stream) * (Len(WarcHeader) + Len(WarcTrailer))

\* The records of all container files of warc_dir.
RECURSIVE TotalRecords(_)
TotalRecords(dir) ==
    IF dir = <<>> THEN 0
    ELSE Records(dir[Len(dir)]) + TotalRecords(SubSeq(dir, 1, Len(dir) - 1))

\* The books this run wrote into container n.
BooksIn(n) == {u.url[1] : u \in {v \in archived : v.file = n}}

\* C21 (as claimed): at most one container is open for writing at any time, and
\* when convert_all has returned no container is open and every container that
\* received records has a manifest.
C21_OneContainerOpen ==
    /\ open_peak <= 1
    /\ (conv_pc = "done") =>
           /\ open_files = {}
           /\ \A n \in DOMAIN warc_dir : (warc_dir[n] # <<>>) => (n \in DOMAIN manifests)

\* C22 (as claimed): after any sequence of runs on one output directory the
\* records of all container files are as many as the rows of the index.
C22_IndexMatchesRecords ==
    (conv_pc = "done") => (TotalRecords(warc_dir) = Len(cdx_file))

\* C26 (as claimed): no book with a higher id than a crawled book that is not
\* complete is written to a container.
C26_StopsAtFirstIncomplete ==
    \A u \in archived : \A b \in incomplete_books : u.url[1] < b

\* C30: a container this run put more than one book in holds at most
\* max_warc_size bytes of payload.
C30_OversizeOnlySingleItem ==
    \A n \in DOMAIN warc_dir :
        (Cardinality(BooksIn(n)) > 1) => (PayloadSize(warc_dir[n]) <= max_warc_size)

\* C30's case: a second book appended to a container, filling it to the limit.
C30_Witness ==
    \E n \in DOMAIN warc_dir :
        /\ Cardinality(BooksIn(n)) > 1
        /\ PayloadSize(warc_dir[n]) = max_warc_size

(***************************************************************************)
(* The progress ledger of a crawl run.                                     *)
(*                                                                         *)
(* crawl_all_html.py crawl_all_books (sequential) and                      *)
(* crawl_all_html_parallel.py crawl_books_parallel (thread pool).  The     *)
(* lists progress['completed_books'] and progress['failed_books'] are      *)
(* kept as the number of entries this run appended to each; the entries    *)
(* read by _load_progress are loaded_completed.  book_ids is 1, 2, ...,    *)
(* MaxLedgerBooks, so a book's index in the list is its id.                *)
(***************************************************************************)
SaveEvery == 10

LedgerBooks == 1..MaxLedgerBooks

NoProgress == [completed_books |-> 0, failed_books |-> 0]

LedgerIdle ==
    /\ ledger_mode = "none"
    /\ ledger_pc = "done"
    /\ loaded_completed = {}
    /\ idx = 0
    /\ n_done = 0
    /\ completed = 0
    /\ failed = 0
    /\ progress = NoProgress
    /\ progress_file = NoProgress
    /\ progress_lock = "free"

\* A run starts with the progress file of an earlier run loaded; the parallel run
\* filters the completed books out of book_ids before it submits them.
LedgerInit ==
    /\ ledger_mode \in {"sequential", "parallel"}
    /\ ledger_pc = "run"
    /\ loaded_completed \in {{}} \cup {{b} : b \in LedgerBooks}
    /\ (ledger_mode = "parallel") => (loaded_completed = {})
    /\ idx = 1
    /\ n_done = 0
    /\ completed = 0
    /\ failed = 0
    /\ progress = NoProgress
    /\ progress_file = NoProgress
    /\ progress_lock = "free"

\* progress[...].append(book_id) with the counter beside it.
Record(success) ==
    /\ progress' = IF success
                   THEN [progress EXCEPT !.completed_books = @ + 1]
                   ELSE [progress EXCEPT !.failed_books = @ + 1]
    /\ completed' = IF success THEN completed + 1 ELSE completed
    /\ failed' = IF success THEN failed ELSE failed + 1

\* The sequential run saves "if idx % 10 == 0".
SequentialSaveDue(i) == i % SaveEvery = 0

\* One iteration of "for idx, book_id in enumerate(book_ids, 1)" of crawl_all_books;
\* success is what crawl_book returned.
CrawlNextBook(success) ==
    /\ ledger_mode = "sequential"
    /\ ledger_pc = "run"
    /\ idx <= MaxLedgerBooks
    /\ idx' = idx + 1
    /\ IF idx \in loaded_completed
       THEN UNCHANGED <<progress, completed, failed, progress_file>>   \* continue
       ELSE /\ Record(success)
            /\ progress_file' = IF SequentialSaveDue(idx) THEN progress' ELSE progress_file
    /\ UNCHANGED <<ledger_mode, ledger_pc, loaded_completed, n_done, progress_lock>>

\* "# Final progress save" of either run.
FinalSave ==
    /\ ledger_pc = "run"
    /\ \/ ledger_mode = "sequential" /\ idx > MaxLedgerBooks
       \/ ledger_mode = "parallel" /\ completed + failed = MaxLedgerBooks
    /\ progress_lock = "free"
    /\ progress_file' = progress
    /\ ledger_pc' = "done"
    /\ UNCHANGED <<ledger_mode, loaded_completed, idx, n_done, completed, failed, progress,
                   progress_lock>>

\* A pool thread returns from crawl_book (or raises): its future is done.
FutureDone ==
    /\ ledger_mode = "parallel"
    /\ n_done < MaxLedgerBooks
    /\ n_done' = n_done + 1
    /\ UNCHANGED <<ledger_mode, ledger_pc, loaded_completed, idx, completed, failed,
                   progress, progress_file, progress_lock>>

\* The parallel run saves "if (completed + failed) % 10 == 0", inside
\* "with self.progress_lock".
ParallelSaveDue(c, f) == (c + f) % SaveEvery = 0

\* One iteration of "for future in as_completed(future_to_book)"; outcome is what
\* future.result() gives: "ok" (True), "fail" (False) or "raise".  _save_progress
\* takes self.progress_lock, a threading.Lock, which the loop already holds when
\* it calls it: the main thread then waits for itself.
HandleFuture(outcome) ==
    /\ ledger_mode = "parallel"
    /\ ledger_pc = "run"
    /\ progress_lock = "free"
    /\ completed + failed < n_done
    /\ IF outcome = "raise"
       THEN /\ progress' = [progress EXCEPT !.failed_books = @ + 1]
            /\ failed' = failed + 1
            /\ UNCHANGED <<completed, ledger_pc, progress_lock>>
       ELSE /\ Record(outcome = "ok")
            /\ IF ParallelSaveDue(completed', failed')
               THEN ledger_pc' = "blocked" /\ progress_lock' = "main"
               ELSE UNCHANGED <<ledger_pc, progress_lock>>
    /\ UNCHANGED <<ledger_mode, loaded_completed, idx, n_done, progress_file>>

\* Entries of this run that are in memory and not in the file on disk.
UnsavedItems ==
    (progress.completed_books + progress.failed_books)
        - (progress_file.completed_books + progress_file.failed_books)

\* C5 (as claimed): at every instant at most 10 items finished in this run are
\* missing from the on-disk progress file.
C5_AtMostTenUnsaved == UnsavedItems <= SaveEvery

\* The main thread is inside "with self.progress_lock" of the result loop and waits
\* in _save_progress for the same lock.
WaitsForOwnLock == ledger_pc = "blocked" /\ progress_lock = "main"

\* C27: in the parallel run no thread ever waits for progress_lock while it holds
\* it, so the result loop is never stuck before the final save.
C27_NoSelfWait == ~WaitsForOwnLock

(***************************************************************************)
(* Writing section files, and finding them again after a kill.             *)
(*                                                                         *)
(* crawl_camoufox_parallel.py: _save_html is open(filepath, 'w') followed  *)
(* by f.write(content) and the close at the end of the with block; the     *)
(* page loop of crawl_book skips a section whose file exists.  Every fetch *)
(* here returns the section's complete page, of PageSize pieces; a file is *)
(* the number of pieces that have reached the disk.                        *)
(***************************************************************************)
SaveIdle ==
    /\ save_pc = "done"
    /\ unit_dir = [s \in Sections |-> NoFile]
    /\ current_section = 1
    /\ skipped = {}
    /\ kills = 0

SaveInit ==
    /\ save_pc = "loop"
    /\ unit_dir = [s \in Sections |-> NoFile]
    /\ current_section = 1
    /\ skipped = {}
    /\ kills = 0

\* A section file holding n pieces of its page.
SectionFile(n) == [kind |-> "file", pieces |-> n]

Exists(s) == unit_dir[s] # NoFile

\* open(filepath, 'w'): the file is created, or truncated, at its final path.
\* Section 1 is always fetched and saved; from section 2 on the page loop comes
\* here only when the file does not exist.
OpenSectionFile ==
    /\ save_pc = "loop"
    /\ current_section \in Sections
    /\ (current_section = 1) \/ ~Exists(current_section)
    /\ unit_dir' = [unit_dir EXCEPT ![current_section] = SectionFile(0)]
    /\ save_pc' = "writing"
    /\ UNCHANGED <<current_section, skipped, kills>>

\* f.write(content): a part of the buffered text reaches the file.
WritePiece ==
    /\ save_pc = "writing"
    /\ unit_dir[current_section].pieces + 1 < PageSize
    /\ unit_dir' = [unit_dir EXCEPT ![current_section] = SectionFile(@.pieces + 1)]
    /\ UNCHANGED <<save_pc, current_section, skipped, kills>>

\* The with block ends: the rest is flushed, the file closed; current_section += 1.
CloseSectionFile ==
    /\ save_pc = "writing"
    /\ unit_dir' = [unit_dir EXCEPT ![current_section] = SectionFile(PageSize)]
    /\ save_pc' = "loop"
    /\ current_section' = current_section + 1
    /\ UNCHANGED <<skipped, kills>>

\* "if section_file_path.exists(): ... current_section += 1; continue"
SkipExistingSection ==
    /\ save_pc = "loop"
    /\ current_section \in Sections
    /\ current_section # 1
    /\ Exists(current_section)
    /\ skipped' = skipped \cup {current_section}
    /\ current_section' = current_section + 1
    /\ UNCHANGED <<save_pc, unit_dir, kills>>

\* Past the last section every fetch is a 404 page: the loop runs out of
\* consecutive failures and crawl_book returns.
EndOfBook ==
    /\ save_pc = "loop"
    /\ current_section > MaxSection
    /\ save_pc' = "done"
    /\ UNCHANGED <<unit_dir, current_section, skipped, kills>>

\* The process is killed; the files stay as they are.
Kill ==
    /\ save_pc \in {"loop", "writing"}
    /\ kills < MaxKills
    /\ save_pc' = "killed"
    /\ kills' = kills + 1
    /\ UNCHANGED <<unit_dir, current_section, skipped>>

\* The crawler is started again: crawl_book starts from section 1.
Restart ==
    /\ save_pc = "killed"
    /\ save_pc' = "loop"
    /\ current_section' = 1
    /\ UNCHANGED <<unit_dir, skipped, kills>>

\* C4 (as claimed): after a kill a section's final path does not exist or holds
\* the complete page, and a file the next run takes as existing is complete.
C4_UnitWriteAtomic ==
    /\ (save_pc = "killed") => \A s \in Sections : unit_dir[s] \in {NoFile, SectionFile(PageSize)}
    /\ \A s \in skipped : unit_dir[s] = SectionFile(PageSize)

(***************************************************************************)
(* scrape_book of shamela/page_scraper.py, called up to MaxRuns times on    *)
(* one output directory.                                                   *)
(*                                                                         *)
(* A PageContent is a record of page_number, volume_number and             *)
(* main_content; the site may serve different text for a page on different *)
(* fetches.  Pages past MaxScrapePage do not exist: fetching them fails.   *)
(***************************************************************************)
max_failures == 3

max_iterations == 10000

ScrapePages == 1..MaxScrapePage

ScrapeContents == {"a", "b"}

PageContent(n, text) == [page_number |-> n, volume_number |-> 1, main_content |-> text]

\* What scrape_page can return for page n: None, or the page with the text served.
scrape_page(n) ==
    IF n \in ScrapePages THEN {None} \cup {PageContent(n, c) : c \in ScrapeContents}
    ELSE {None}

\* PageContent.to_json(filepath), of shamela/schemas.py: the fields of the page as
\* one JSON object.
to_json(page_content) ==
    [kind |-> "json",
     data |-> [page_number |-> page_content.page_number,
               volume_number |-> page_content.volume_number,
               main_content |-> page_content.main_content]]

\* data.get(key, default)
Get(data, key, default) == IF key \in DOMAIN data THEN data[key] ELSE default

\* What a damaged page file can hold: text that is not JSON, the beginning of a
\* JSON object, or nothing.
CorruptFiles == {[kind |-> "invalid"], [kind |-> "truncated"], [kind |-> "empty"]}

\* A variant that builds a page from whatever file is there.
_load_existing_page_Unchecked(dir, page_number) ==
    IF page_number \in DOMAIN dir /\ dir[page_number] # NoFile
    THEN IF dir[page_number].kind = "json"
         THEN [page_number |-> Get(dir[page_number].data, "page_number", page_number),
               volume_number |-> Get(dir[page_number].data, "volume_number", 1),
               main_content |-> Get(dir[page_number].data, "main_content", "")]
         ELSE PageContent(page_number, "")
    ELSE None

\* _load_existing_page: the page built from the file's fields, None when the file
\* is absent or cannot be read.
_load_existing_page(dir, page_number) ==
    IF page_number \in DOMAIN dir /\ dir[page_number].kind = "json"
    THEN [page_number |-> Get(dir[page_number].data, "page_number", page_number),
          volume_number |-> Get(dir[page_number].data, "volume_number", 1),
          main_content |-> Get(dir[page_number].data, "main_content", "")]
    ELSE None

\* A variant that finds no page file.
_get_existing_pages_Empty(dir) == {}

\* _get_existing_pages: the numbers of the page_<n>.json files in the directory;
\* page_i.json is not among them.
_get_existing_pages(dir) == {n \in DOMAIN dir : dir[n] # NoFile}

\* _save_page: the page is written to page_<page_number>.json.
_save_page(dir, page_content) ==
    [dir EXCEPT ![page_content.page_number] = to_json(page_content)]

NoDamage == [at |-> 0, pages |-> {}, files |-> <<>>]

NoRun == [ran |-> FALSE, end_page |-> 0, pages |-> <<>>, files |-> <<>>]

ScrapeIdle ==
    /\ scrape_pc = "idle"
    /\ run = MaxRuns
    /\ json_dir = [n \in ScrapePages |-> NoFile]
    /\ overview_file = NoFile
    /\ end_page = 0
    /\ resume = TRUE
    /\ existing_pages = {}
    /\ current_page = 1
    /\ consecutive_failures = 0
    /\ iterations = 0
    /\ pages = <<>>
    /\ overview = FALSE
    /\ fetched = {}
    /\ first_run = NoRun
    /\ corrupted = NoDamage

\* The output directory is new.
ScrapeInit ==
    /\ scrape_pc = "idle"
    /\ run = 0
    /\ json_dir = [n \in ScrapePages |-> NoFile]
    /\ overview_file = NoFile
    /\ end_page = 0
    /\ resume = TRUE
    /\ existing_pages = {}
    /\ current_page = 1
    /\ consecutive_failures = 0
    /\ iterations = 0
    /\ pages = <<>>
    /\ overview = FALSE
    /\ fetched = {}
    /\ first_run = NoRun
    /\ corrupted = NoDamage

\* scrape_book up to the loop: the overview page is scraped and saved as page 'i',
\* the existing pages are listed.  overview_page is what scrape_overview_page
\* returned.
StartScrape(end, res, overview_page) ==
    /\ scrape_pc = "idle"
    /\ run < MaxRuns
    /\ run' = run + 1
    /\ end_page' = end
    /\ resume' = res
    /\ overview' = (overview_page # None)
    /\ overview_file' = IF overview_page # None THEN to_json(overview_page) ELSE overview_file
    /\ existing_pages' = IF res THEN _get_existing_pages(json_dir) ELSE {}
    /\ current_page' = 1
    /\ consecutive_failures' = 0
    /\ iterations' = 0
    /\ pages' = <<>>
    /\ fetched' = {}
    /\ scrape_pc' = "loop"
    /\ UNCHANGED <<json_dir, first_run, corrupted>>

\* "return pages"; the first call's result is remembered.
Return(final_pages, final_dir) ==
    /\ scrape_pc' = "idle"
    /\ first_run' = IF run = 1
                    THEN [ran |-> TRUE, end_page |-> end_page, pages |-> final_pages,
                          files |-> final_dir]
                    ELSE first_run

\* The loop is left at its head: iterations reached max_iterations, or
\* current_page is past end_page.
LoopExit ==
    \/ iterations >= max_iterations
    \/ iterations + 1 >= max_iterations
    \/ end_page # 0 /\ current_page > end_page

ScrapeDone ==
    /\ scrape_pc = "loop"
    /\ LoopExit
    /\ iterations' = IF iterations < max_iterations THEN iterations + 1 ELSE iterations
    /\ Return(pages, json_dir)
    /\ UNCHANGED <<run, json_dir, overview_file, end_page, resume, existing_pages,
                   current_page, consecutive_failures, pages, overview, fetched, corrupted>>

\* The resume branch: the page is in existing_pages and its file loads.
Loads == resume /\ current_page \in existing_pages
             /\ _load_existing_page(json_dir, current_page) # None

LoadExisting ==
    /\ scrape_pc = "loop"
    /\ ~LoopExit
    /\ Loads
    /\ iterations' = iterations + 1
    /\ pages' = Append(pages, _load_existing_page(json_dir, current_page))
    /\ consecutive_failures' = 0
    /\ current_page' = current_page + 1
    /\ UNCHANGED <<scrape_pc, run, json_dir, overview_file, end_page, resume,
                   existing_pages, overview, fetched, first_run, corrupted>>

\* The page is scraped; page_content is what scrape_page returned.
ScrapeNext(page_content) ==
    /\ scrape_pc = "loop"
    /\ ~LoopExit
    /\ ~Loads
    /\ page_content \in scrape_page(current_page)
    /\ iterations' = iterations + 1
    /\ fetched' = fetched \cup {current_page}
    /\ IF page_content # None
       THEN /\ pages' = Append(pages, page_content)
            /\ consecutive_failures' = 0
            /\ json_dir' = _save_page(json_dir, page_content)
            /\ current_page' = current_page + 1
            /\ UNCHANGED <<scrape_pc, first_run>>
       ELSE /\ consecutive_failures' = consecutive_failures + 1
            /\ UNCHANGED <<pages, json_dir>>
            /\ IF consecutive_failures' >= max_failures
               THEN Return(pages, json_dir) /\ UNCHANGED current_page
               ELSE current_page' = current_page + 1 /\ UNCHANGED <<scrape_pc, first_run>>
    /\ UNCHANGED <<run, overview_file, end_page, resume, existing_pages, overview, corrupted>>

\* The first call asked for pages 1..N, returned them all and left a file for each.
FirstRunStored(N) ==
    /\ first_run.ran
    /\ first_run.end_page = N
    /\ {x.page_number : x \in Range(first_run.pages)} = 1..N
    /\ \A n \in 1..N : first_run.files[n].kind = "json"

\* The entries of a returned list for page n.
Returned(list, n) == {x \in Range(list) : x.page_number = n}

\* C3: when the first call stored pages 1..N and the second call, with resume,
\* asks for pages 1..M with M > N, the second call fetches no page of 1..N,
\* leaves their files as they were and returns them as the first call did.
C3_IdempotentResume ==
    \A N \in ScrapePages :
        (run = 2 /\ resume /\ FirstRunStored(N) /\ end_page > N) =>
            /\ fetched \cap (1..N) = {}
            /\ \A n \in 1..N : json_dir[n] = first_run.files[n]
            /\ (scrape_pc = "idle") =>
                   \A n \in 1..N : Returned(pages, n) = Returned(first_run.pages, n)

\* C3's case: the second call has returned the stored pages and fetched a later one.
C3_Witness ==
    \E N \in ScrapePages :
        /\ run = 2 /\ resume /\ FirstRunStored(N) /\ end_page > N
        /\ scrape_pc = "idle"
        /\ Len(pages) > N
        /\ fetched # {}

\* "return pages": the list of the call, the overview page first when it was scraped.
ReturnedList ==
    (IF overview THEN <<PageContent(0, "overview")>> ELSE <<>>) \o pages

\* The number of .json files in the book's directory: page_<n>.json and page_i.json.
JsonFiles ==
    Cardinality(_get_existing_pages(json_dir)) + (IF overview_file # NoFile THEN 1 ELSE 0)

\* C24: when the first call into a new directory asks for pages 1..N and the site
\* serves each of them, the returned list has exactly N entries, numbered 1..N,
\* and the directory holds exactly N JSON files.
C24_ExactlyNPages ==
    \A N \in ScrapePages :
        (scrape_pc = "idle" /\ run = 1 /\ end_page = N
            /\ \A n \in 1..N : Returned(pages, n) # {}) =>
            /\ Len(ReturnedList) = N
            /\ {x.page_number : x \in Range(ReturnedList)} = 1..N
            /\ JsonFiles = N

\* After the first call a page file is overwritten with content that does not
\* parse; the directory as it was before the damage is remembered.
Damage(n, file) ==
    /\ scrape_pc = "idle"
    /\ run = 1
    /\ json_dir[n].kind = "json"
    /\ json_dir' = [json_dir EXCEPT ![n] = file]
    /\ corrupted' = [at |-> run,
                     pages |-> corrupted.pages \cup {n},
                     files |-> IF corrupted.pages = {} THEN json_dir ELSE corrupted.files]
    /\ UNCHANGED <<scrape_pc, run, overview_file, end_page, resume, existing_pages,
                   current_page, consecutive_failures, iterations, pages, overview,
                   fetched, first_run>>

\* The pages whose files were stored and not damaged.
Intact == IF corrupted.pages # {}
          THEN {n \in ScrapePages : corrupted.files[n].kind = "json"} \ corrupted.pages
          ELSE {}

\* C23: in a call with resume after some stored page files were damaged, every
\* damaged page the loop has passed was fetched again, a damaged page that is in
\* the returned list has its file rewritten from the fetched page, and no intact
\* stored page is fetched: it is returned as its file holds it and the file stays
\* as it was.
C23_CorruptPagesRefetched ==
    (corrupted.pages # {} /\ run > corrupted.at /\ resume) =>
        /\ fetched \cap Intact = {}
        /\ \A n \in Intact :
               /\ json_dir[n] = corrupted.files[n]
               /\ (n < current_page) =>
                      Returned(pages, n) = {_load_existing_page(corrupted.files, n)}
        /\ \A c \in corrupted.pages :
               /\ (c < current_page) => (c \in fetched)
               /\ (Returned(pages, c) # {}) =>
                      json_dir[c] \in {to_json(x) : x \in Returned(pages, c)}

\* C23's case: the resumed call has returned; it fetched a damaged page again and
\* rewrote its file, and returned an intact page from its file.
C23_Witness ==
    /\ corrupted.pages # {} /\ run > corrupted.at /\ resume /\ scrape_pc = "idle"
    /\ \E c \in corrupted.pages : c \in fetched /\ json_dir[c].kind = "json"
    /\ \E n \in Intact : Returned(pages, n) # {}

(***************************************************************************)
(* The loop of scrape_book, control flow only.                             *)
(*                                                                         *)
(* Which pages the list and the directory hold does not steer the loop:    *)
(* an iteration either gets a page (loaded from its file or scraped) or    *)
(* gets None.  Here the book has a page for every number, so only the      *)
(* counters stop the loop.                                                 *)
(***************************************************************************)
LoopIdle ==
    /\ loop_pc = "idle"
    /\ loop_end_page = 0
    /\ loop_iterations = 0
    /\ loop_failures = 0
    /\ loop_page = 1
    /\ loop_log = {}

LoopInit == LoopIdle

\* scrape_book up to "while iterations < max_iterations".
LoopStart(end) ==
    /\ loop_pc = "idle"
    /\ loop_pc' = "loop"
    /\ loop_end_page' = end
    /\ loop_iterations' = 0
    /\ loop_failures' = 0
    /\ loop_page' = 1
    /\ loop_log' = {}

\* One iteration of the loop; got says whether the iteration got a page.  After a
\* break the "Completed scraping book" message is logged and the list returned.
LoopStep(got) ==
    /\ loop_pc = "loop"
    /\ loop_iterations < max_iterations
    /\ loop_iterations' = loop_iterations + 1
    /\ UNCHANGED loop_end_page
    /\ IF loop_iterations' >= max_iterations
       THEN /\ loop_pc' = "returned"
            /\ loop_log' = loop_log \cup {"Reached maximum iterations",
                                          "Completed scraping book"}
            /\ UNCHANGED <<loop_failures, loop_page>>
       ELSE IF loop_end_page # 0 /\ loop_page > loop_end_page
       THEN /\ loop_pc' = "returned"
            /\ loop_log' = loop_log \cup {"Reached end page", "Completed scraping book"}
            /\ UNCHANGED <<loop_failures, loop_page>>
       ELSE IF got
       THEN /\ loop_failures' = 0
            /\ loop_page' = loop_page + 1
            /\ UNCHANGED <<loop_pc, loop_log>>
       ELSE /\ loop_failures' = loop_failures + 1
            /\ IF loop_failures' >= max_failures
               THEN /\ loop_pc' = "returned"
                    /\ loop_log' = loop_log \cup {"Failed to scrape page",
                                                  "Stopping after consecutive failures",
                                                  "Completed scraping book"}
                    /\ UNCHANGED loop_page
               ELSE /\ loop_page' = loop_page + 1
                    /\ loop_log' = loop_log \cup {"Failed to scrape page"}
                    /\ UNCHANGED loop_pc

\* The messages logged with logger.error.
ErrorMessages == {"Reached maximum iterations"}

\* The call was stopped by the iteration cap.
CapReached == loop_pc = "returned" /\ loop_iterations >= max_iterations

\* C25: the loop never runs more than max_iterations iterations, and a call that
\* the cap stopped has logged an error and has not ended as a completed book does,
\* with the "Completed scraping book" message.
C25_CapIsAnomaly ==
    /\ loop_iterations <= max_iterations
    /\ CapReached =>
           /\ loop_log \cap ErrorMessages # {}
           /\ "Completed scraping book" \notin loop_log

\* Every call returns.
LoopTerminates == (loop_pc = "loop") ~> (loop_pc = "returned")

(***************************************************************************)
(* Crawling one book.                                                      *)
(*                                                                         *)
(* "threaded" is crawl_book of crawl_all_html_parallel.py, "resume" is     *)
(* resume_book of resume_incomplete_books.py, "browser" is crawl_book of   *)
(* crawl_camoufox_parallel.py and "http" is crawl_book of                  *)
(* crawl_all_html.py.  A URL of the book is the section it names.  The     *)
(* book has at most MaxSection sections: past them a fetch fails.          *)
(***************************************************************************)
max_consecutive_failures_http == 3

max_consecutive_failures_browser == 5

\* What the site can answer with: a full content page with any pagination
\* control, a content page below 500 characters, a page below 100 characters,
\* a challenge page, a 404 page, and a long page that is none of these.
CrawlPages ==
    {[kind |-> "content", len |-> 600, next |-> k] : k \in (-1)..MaxSection}
        \cup {[kind |-> "content", len |-> 300, next |-> 0],
              [kind |-> "other", len |-> 50, next |-> 0],
              [kind |-> "other", len |-> 600, next |-> 0],
              [kind |-> "challenge", len |-> 600, next |-> 0],
              [kind |-> "notfound", len |-> 600, next |-> 0]}

\* _fetch_url / page.goto + page.content: None when the request failed.
CrawlResponses(section) ==
    IF section \in Sections THEN {None} \cup CrawlPages ELSE {None}

NothingYet == [kind |-> "nothing"]

NewMetadata == [status |-> "in_progress", total_pages |-> 0, errors |-> 0]

EmptyDir == [s \in Sections |-> NoFile]

\* The directories an interrupted crawl left: sections 1..k, each with its next
\* button, the last one with or without.
InitialDirs ==
    {EmptyDir} \cup
    {[s \in Sections |->
         IF s < k THEN [kind |-> "content", len |-> 600, next |-> s + 1]
         ELSE IF s = k THEN [kind |-> "content", len |-> 600,
                             next |-> IF more THEN k + 1 ELSE 0]
         ELSE NoFile] : k \in 1..(MaxSection - 1), more \in BOOLEAN}

CrawlIdle ==
    /\ crawl_variant = "none"
    /\ crawl_pc = "returned"
    /\ crawl_dir = EmptyDir
    /\ metadata = NewMetadata
    /\ current_url = 0
    /\ visited_urls = {}
    /\ crawl_failures = 0
    /\ returned = "nothing"
    /\ last_unit = NothingYet
    /\ existing0 = {}
    /\ crawl_fetches = {}
    /\ first_fetch = 0
    /\ timed_out = FALSE

\* metadata is first the book's metadata file: an interrupted crawl left it
\* in_progress, with the files it had saved.
CrawlInit ==
    /\ crawl_variant \in {"threaded", "resume", "browser", "http"}
    /\ crawl_pc = "start"
    /\ crawl_dir \in InitialDirs
    /\ (crawl_variant = "http") => (crawl_dir = EmptyDir)
    /\ metadata = [NewMetadata EXCEPT
                      !.total_pages = Cardinality(SectionsOnDisk(crawl_dir))]
    /\ current_url = 0
    /\ visited_urls = {}
    /\ crawl_failures = 0
    /\ returned = "nothing"
    /\ last_unit = NothingYet
    /\ existing0 = SectionsOnDisk(crawl_dir)
    /\ crawl_fetches = {}
    /\ first_fetch = 0
    /\ timed_out = FALSE

\* The call fetches a section.
Fetched(section) ==
    /\ crawl_fetches' = crawl_fetches \cup {section}
    /\ first_fetch' = IF first_fetch = 0 THEN section ELSE first_fetch
    /\ UNCHANGED existing0

NoFetch == UNCHANGED <<existing0, crawl_fetches, first_fetch>>

\* metadata is saved (where the code saves it) and the call returns value.
ReturnWith(meta, value) ==
    /\ metadata' = meta
    /\ returned' = value
    /\ crawl_pc' = "returned"

Failed(meta) == [meta EXCEPT !.status = "failed", !.errors = @ + 1]

Complete(meta) == [meta EXCEPT !.status = "complete"]

\* A crawler that takes a page without a next button to link to the last section.
NextUrl_NeverNone(html) == IF html.next >= 1 THEN html.next ELSE MaxSection

\* The URL the next button leads to: None without a button, and None when its
\* href starts with neither '/' nor 'http'.
NextUrl(html) == IF html.next >= 1 THEN html.next ELSE 0

\* crawl_book of the threaded crawler up to its loop.  toc_html is the TOC page:
\* None, or the page with its first content link (0: it has none).
ThreadedStart(toc_html) ==
    /\ crawl_variant = "threaded"
    /\ crawl_pc = "start"
    /\ IF toc_html = None \/ toc_html.first = 0
       THEN /\ ReturnWith(Failed(NewMetadata), "False")
            /\ UNCHANGED <<current_url, visited_urls>>
       ELSE /\ metadata' = NewMetadata
            /\ current_url' = toc_html.first
            /\ visited_urls' = {}
            /\ crawl_pc' = "loop"
            /\ UNCHANGED returned
    /\ NoFetch
    /\ UNCHANGED <<crawl_variant, crawl_dir, crawl_failures, last_unit, timed_out>>

\* _find_last_section: the highest section with a file, 0 for None.
_find_last_section(dir) ==
    IF SectionsOnDisk(dir) = {} THEN 0 ELSE Max(SectionsOnDisk(dir))

\* resume_book up to its loop: the last section's file is read for its next button.
ResumeStart ==
    /\ crawl_variant = "resume"
    /\ crawl_pc = "start"
    /\ LET last_section == _find_last_section(crawl_dir)
           last_html == crawl_dir[last_section]
       IN  IF last_section = 0
           THEN /\ returned' = "False"
                /\ crawl_pc' = "returned"
                /\ UNCHANGED <<metadata, current_url, last_unit>>
           ELSE /\ last_unit' = last_html
                /\ IF last_html.next = 0
                   THEN ReturnWith(Complete(metadata), "True") /\ UNCHANGED current_url
                   ELSE IF last_html.next < 0
                   THEN /\ returned' = "False"
                        /\ crawl_pc' = "returned"
                        /\ UNCHANGED <<metadata, current_url>>
                   ELSE /\ current_url' = last_html.next
                        /\ crawl_pc' = "loop"
                        /\ UNCHANGED <<metadata, returned>>
    /\ visited_urls' = {}
    /\ NoFetch
    /\ UNCHANGED <<crawl_variant, crawl_dir, crawl_failures, timed_out>>

\* One iteration of "while current_url and current_url not in visited_urls", the
\* same in crawl_book of the threaded crawler and in resume_book, with the code
\* after the loop when the iteration ends it.
FollowPage(html) ==
    /\ crawl_variant \in {"threaded", "resume"}
    /\ crawl_pc = "loop"
    /\ html \in CrawlResponses(current_url)
    /\ Fetched(current_url)
    /\ last_unit' = html
    /\ IF html = None \/ html.len < 500
       THEN /\ ReturnWith(Complete([metadata EXCEPT !.errors = @ + 1]), "True")
            /\ UNCHANGED <<crawl_dir, current_url, visited_urls>>
       ELSE /\ visited_urls' = visited_urls \cup {current_url}
            /\ crawl_dir' = [crawl_dir EXCEPT ![current_url] = html]
            /\ current_url' = NextUrl(html)
            /\ LET meta == [metadata EXCEPT !.total_pages = @ + 1]
               IN  IF current_url' = 0 \/ current_url' \in visited_urls'
                   THEN ReturnWith(Complete(meta), "True")
                   ELSE metadata' = meta /\ UNCHANGED <<crawl_pc, returned>>
    /\ UNCHANGED <<crawl_variant, crawl_failures, timed_out>>

\* crawl_book of the HTTP crawler up to its loop; main_html is the book's main
\* page, saved beside the page files.
HttpStart(main_html) ==
    /\ crawl_variant = "http"
    /\ crawl_pc = "start"
    /\ IF main_html = None
       THEN /\ ReturnWith(Failed(NewMetadata), "False")
            /\ UNCHANGED <<current_url, crawl_failures>>
       ELSE /\ metadata' = NewMetadata
            /\ current_url' = 1
            /\ crawl_failures' = 0
            /\ crawl_pc' = "loop"
            /\ UNCHANGED returned
    /\ NoFetch
    /\ UNCHANGED <<crawl_variant, crawl_dir, visited_urls, last_unit, timed_out>>

\* One iteration of "while consecutive_failures < max_consecutive_failures" of
\* the HTTP crawler, with the code after the loop when the iteration ends it.
HttpPage(page_html) ==
    /\ crawl_variant = "http"
    /\ crawl_pc = "loop"
    /\ page_html \in CrawlResponses(current_url)
    /\ Fetched(current_url)
    /\ last_unit' = page_html
    /\ current_url' = current_url + 1
    /\ IF page_html = None \/ page_html.len < 100
       THEN /\ crawl_failures' = crawl_failures + 1
            /\ UNCHANGED crawl_dir
            /\ IF crawl_failures' < max_consecutive_failures_http
               THEN UNCHANGED <<metadata, crawl_pc, returned>>
               ELSE ReturnWith(Complete(metadata), "True")
       ELSE /\ crawl_dir' = [crawl_dir EXCEPT ![current_url] = page_html]
            /\ metadata' = [metadata EXCEPT !.total_pages = current_url]
            /\ crawl_failures' = 0
            /\ UNCHANGED <<crawl_pc, returned>>
    /\ UNCHANGED <<crawl_variant, visited_urls, timed_out>>

IsChallenge(content) == content # None /\ content.kind = "challenge"

\* What page.content() gives once wait_for_user_to_solve_challenge returned True.
SolvedContents == {p \in CrawlPages : p.kind # "challenge"}

\* The wait happens only on a challenge page: None when it timed out.
SolvedFor(content) == IF IsChallenge(content) THEN {None} \cup SolvedContents ELSE {None}

\* crawl_book of the browser crawler up to its loop.  content is the first page
\* (None: page.goto raised); solved is the page after a challenge was solved,
\* None when the wait timed out.
BrowserStart(content, solved) ==
    /\ crawl_variant = "browser"
    /\ crawl_pc = "start"
    /\ IF metadata.status = "complete"
       THEN /\ returned' = "True"
            /\ crawl_pc' = "returned"
            /\ NoFetch
            /\ UNCHANGED <<metadata, crawl_dir, current_url, crawl_failures, last_unit,
                           timed_out>>
       ELSE LET final == IF IsChallenge(content) THEN solved ELSE content
            IN  /\ Fetched(1)
                /\ timed_out' = (IsChallenge(content) /\ solved = None)
                /\ last_unit' = final
                /\ IF final # None /\ final.len > 500 /\ final.kind # "notfound"
                   THEN /\ crawl_dir' = [crawl_dir EXCEPT ![1] = final]
                        /\ metadata' = [NewMetadata EXCEPT !.total_pages = 1]
                        /\ current_url' = 2
                        /\ crawl_failures' = 0
                        /\ crawl_pc' = "loop"
                        /\ UNCHANGED returned
                   ELSE /\ ReturnWith(Failed(NewMetadata), "False")
                        /\ UNCHANGED <<crawl_dir, current_url, crawl_failures>>
    /\ UNCHANGED <<crawl_variant, visited_urls>>

\* "if section_file_path.exists()": the section is counted and not fetched.
BrowserSkip ==
    /\ crawl_variant = "browser"
    /\ crawl_pc = "loop"
    /\ current_url \in Sections
    /\ crawl_dir[current_url] # NoFile
    /\ metadata' = [metadata EXCEPT !.total_pages = @ + 1]
    /\ current_url' = current_url + 1
    /\ NoFetch
    /\ UNCHANGED <<crawl_variant, crawl_pc, crawl_dir, visited_urls, crawl_failures,
                   returned, last_unit, timed_out>>

\* One fetching iteration of "while consecutive_failures <
\* max_consecutive_failures" of the browser crawler, with the code after the
\* loop when the iteration ends it.
BrowserPage(content, solved) ==
    /\ crawl_variant = "browser"
    /\ crawl_pc = "loop"
    /\ ~(current_url \in Sections /\ crawl_dir[current_url] # NoFile)
    /\ content \in CrawlResponses(current_url)
    /\ Fetched(current_url)
    /\ IF content = None \/ content.len < 500 \/ content.kind = "notfound"
       THEN /\ last_unit' = content
            /\ UNCHANGED timed_out
            /\ crawl_failures' = crawl_failures + 1
            /\ current_url' = current_url + 1
            /\ UNCHANGED crawl_dir
            /\ IF crawl_failures' < max_consecutive_failures_browser
               THEN UNCHANGED <<metadata, crawl_pc, returned>>
               ELSE ReturnWith(Complete(metadata), "True")
       ELSE IF IsChallenge(content) /\ solved = None
       THEN /\ last_unit' = content
            /\ timed_out' = TRUE
            /\ ReturnWith(Complete(metadata), "True")
            /\ UNCHANGED <<crawl_dir, current_url, crawl_failures>>
       ELSE LET final == IF IsChallenge(content) THEN solved ELSE content
            IN  /\ last_unit' = final
                /\ UNCHANGED timed_out
                /\ crawl_dir' = [crawl_dir EXCEPT ![current_url] = final]
                /\ metadata' = [metadata EXCEPT !.total_pages = @ + 1]
                /\ crawl_failures' = 0
                /\ current_url' = current_url + 1
                /\ UNCHANGED <<crawl_pc, returned>>
    /\ UNCHANGED <<crawl_variant, visited_urls>>

\* A valid page on which no enabled next-page control was seen.
TerminationSignal(unit) ==
    /\ unit.kind = "content"
    /\ unit.len >= 500
    /\ unit.next = 0

\* C1 (as claimed): in the threaded, resume and browser crawlers the status is
\* 'complete' only if the last unit of the session was a valid page showing the
\* termination signal.
C1_CompleteOnlyAfterTerminationSignal ==
    (crawl_variant \in {"threaded", "resume", "browser"} /\ metadata.status = "complete")
        => TerminationSignal(last_unit)

\* C2 (as claimed): in the HTTP crawler there is no fetch after three
\* consecutive failures, and a call that ends on them returns False with the
\* status 'failed' and an error noted.
C2_ThreeFailuresFailTheItem ==
    (crawl_variant = "http") =>
        /\ crawl_failures <= max_consecutive_failures_http
        /\ (crawl_pc = "returned" /\ crawl_failures = max_consecutive_failures_http) =>
               (returned = "False" /\ metadata.status = "failed" /\ metadata.errors > 0)

\* The classifier's Valid: a content page of at least 500 characters.
ValidPage(p) == p.kind = "content" /\ p.len >= 500

\* C11 (as claimed): the threaded and browser crawlers leave only Valid pages
\* in the book's directory; a challenge or invalid page is never saved.
C11_OnlyValidPagesWritten ==
    (crawl_variant \in {"threaded", "browser"}) =>
        \A s \in SectionsOnDisk(crawl_dir) : ValidPage(crawl_dir[s])

\* C12 (as claimed): a call on a book with units on disk fetches first the
\* section after the highest existing one and fetches no existing section; the
\* browser crawler on a book without units fetches section 1 first.
C12_ResumeStartsAfterLastUnit ==
    (crawl_variant \in {"threaded", "resume", "browser"}) =>
        /\ (existing0 # {} /\ first_fetch # 0) => (first_fetch = Max(existing0) + 1)
        /\ (existing0 = {} /\ first_fetch # 0 /\ crawl_variant = "browser") => (first_fetch = 1)
        /\ crawl_fetches \cap existing0 = {}

\* C17 (as claimed): a challenge that is not solved within the wait ends the
\* browser crawler's call with status 'failed' and an error noted.
C17_ChallengeTimeoutFails ==
    (crawl_variant = "browser" /\ timed_out) =>
        (crawl_pc = "returned" /\ metadata.status = "failed" /\ metadata.errors > 0)

\* C29: when a crawl of a book has ended with status 'complete', the total_pages
\* it recorded is the number of page files of the book on disk, which is what
\* convert_book compares before it archives the book.
C29_CountMatchesFiles ==
    (crawl_pc = "returned" /\ metadata.status = "complete") =>
        (metadata.total_pages = Cardinality(SectionsOnDisk(crawl_dir)))

\* C18: in the threaded crawler and in resume_book, once the last unit is a
\* valid page without an enabled next-page control the call has ended with status
\* 'complete', whatever the number of units.
C18_TerminationSignalCompletes ==
    (crawl_variant \in {"threaded", "resume"} /\ TerminationSignal(last_unit)) =>
        (crawl_pc = "returned" /\ returned = "True" /\ metadata.status = "complete")

\* C18's case: a book whose first content page is also its last.
C18_Witness ==
    /\ crawl_variant = "threaded"
    /\ existing0 = {}
    /\ TerminationSignal(last_unit)
    /\ metadata.total_pages = 1
    /\ Cardinality(SectionsOnDisk(crawl_dir)) = 1
    /\ metadata.status = "complete"

(***************************************************************************)
(* Workers pulling books from one shared queue.                            *)
(*                                                                         *)
(* "browser" is browser_worker with crawl_books_parallel of                *)
(* crawl_camoufox_parallel.py: an asyncio.Queue, book_queue.join(), then   *)
(* one None per worker.  "batch" is worker_process with main of            *)
(* batch_scrape_parallel.py: the Nones are put behind the books before the *)
(* workers start, main waits for stats['completed'], and SIGINT sets       *)
(* should_stop in every process.  A worker handles a book as BookUnits     *)
(* rounds of fetching a page and writing it.                               *)
(***************************************************************************)
Workers == 1..NumWorkers

Items == 1..NumItems

Procs == {0} \cup Workers

RECURSIVE Pills(_)
Pills(n) == IF n = 0 THEN <<>> ELSE <<0>> \o Pills(n - 1)

ItemQueue == [i \in Items |-> i]

IdleWorker == [pc |-> "idle", book |-> 0, left |-> 0]

QueueIdle ==
    /\ queue_mode = "none"
    /\ book_queue = <<>>
    /\ unfinished_tasks = 0
    /\ stats_completed = 0
    /\ workers = [w \in Workers |-> [IdleWorker EXCEPT !.pc = "stopped"]]
    /\ sched_pc = "returned"
    /\ should_stop = [p \in Procs |-> FALSE]
    /\ processed = [i \in Items |-> 0]
    /\ killed_writing = FALSE
    /\ pulled_after_stop = FALSE
    /\ results_queue = <<>>
    /\ results = <<>>

\* The state once the scheduler has filled the queue and started the workers.
QueueInit ==
    /\ queue_mode \in {"browser", "batch"}
    /\ book_queue = IF queue_mode = "batch" THEN ItemQueue \o Pills(NumWorkers) ELSE ItemQueue
    /\ unfinished_tasks = IF queue_mode = "browser" THEN NumItems ELSE 0
    /\ stats_completed = 0
    /\ workers = [w \in Workers |-> IdleWorker]
    /\ sched_pc = "collect"
    /\ should_stop = [p \in Procs |-> FALSE]
    /\ processed = [i \in Items |-> 0]
    /\ killed_writing = FALSE
    /\ pulled_after_stop = FALSE
    /\ results_queue = <<>>
    /\ results = <<>>

\* book_queue.get() returns: a None stops the worker, a book starts its first fetch.
\* worker_process only reaches get() "while not should_stop".
GetBook(w) ==
    /\ workers[w].pc = "idle"
    /\ book_queue # <<>>
    /\ ~should_stop[w]
    /\ book_queue' = Tail(book_queue)
    /\ workers' = [workers EXCEPT ![w] =
                      IF Head(book_queue) = 0
                      THEN [IdleWorker EXCEPT !.pc = "stopped"]
                      ELSE [pc |-> "fetching", book |-> Head(book_queue), left |-> BookUnits]]
    /\ UNCHANGED <<queue_mode, unfinished_tasks, stats_completed, sched_pc, should_stop,
                   processed, killed_writing, pulled_after_stop,
                   results_queue, results>>

\* The worker leaves its loop without a None: browser_worker when get() timed out
\* and the queue is empty, worker_process when it finds should_stop set.
LeaveLoop(w) ==
    /\ workers[w].pc = "idle"
    /\ \/ queue_mode = "browser" /\ book_queue = <<>>
       \/ queue_mode = "batch" /\ should_stop[w]
    /\ workers' = [workers EXCEPT ![w].pc = "stopped"]
    /\ UNCHANGED <<queue_mode, book_queue, unfinished_tasks, stats_completed, sched_pc,
                   should_stop, processed, killed_writing, pulled_after_stop,
                   results_queue, results>>

\* The page arrived; the worker starts writing it.
FetchUnit(w) ==
    /\ workers[w].pc = "fetching"
    /\ workers' = [workers EXCEPT ![w].pc = "writing"]
    /\ UNCHANGED <<queue_mode, book_queue, unfinished_tasks, stats_completed, sched_pc,
                   should_stop, processed, killed_writing, pulled_after_stop,
                   results_queue, results>>

\* The page is written.  With pages left the worker fetches the next one; after
\* the last one the book is done: book_queue.task_done() in browser_worker,
\* results_queue.put(result) and stats['completed'] += 1 in worker_process.
WriteUnit(w) ==
    /\ workers[w].pc = "writing"
    /\ IF workers[w].left > 1
       THEN /\ workers' = [workers EXCEPT ![w].pc = "fetching", ![w].left = @ - 1]
            /\ pulled_after_stop' = (pulled_after_stop \/ should_stop[w])
            /\ UNCHANGED <<unfinished_tasks, stats_completed, processed, results_queue>>
       ELSE /\ workers' = [workers EXCEPT ![w] = IdleWorker]
            /\ processed' = [processed EXCEPT ![workers[w].book] = @ + 1]
            /\ unfinished_tasks' =
                   IF queue_mode = "browser" THEN unfinished_tasks - 1 ELSE unfinished_tasks
            /\ results_queue' =
                   IF queue_mode = "batch"
                   THEN Append(results_queue, workers[w].book) ELSE results_queue
            /\ stats_completed' =
                   IF queue_mode = "batch" THEN stats_completed + 1 ELSE stats_completed
            /\ UNCHANGED pulled_after_stop
    /\ UNCHANGED <<queue_mode, book_queue, sched_pc, should_stop, killed_writing, results>>

\* Handling the book raises.  crawl_book raises into browser_worker from the
\* statements before its try (json.load of the metadata file, mkdir) and from
\* _save_metadata in its except clause: "except Exception" in the worker logs
\* and goes on, and book_queue.task_done() is not reached.  scrape_single_book
\* catches the exception itself and returns a failed result, which
\* worker_process counts in stats['completed'].
WorkerError(w) ==
    /\ workers[w].pc = "fetching"
    /\ workers' = [workers EXCEPT ![w] = IdleWorker]
    /\ results_queue' =
           IF queue_mode = "batch"
           THEN Append(results_queue, workers[w].book) ELSE results_queue
    /\ stats_completed' =
           IF queue_mode = "batch" THEN stats_completed + 1 ELSE stats_completed
    /\ UNCHANGED <<queue_mode, book_queue, unfinished_tasks, sched_pc,
                   should_stop, processed, killed_writing, pulled_after_stop, results>>

\* crawl_books_parallel: book_queue.join() returns and one None per browser is put.
JoinReturns ==
    /\ queue_mode = "browser"
    /\ sched_pc = "collect"
    /\ unfinished_tasks = 0
    /\ book_queue' = book_queue \o Pills(NumWorkers)
    /\ sched_pc' = "gather"
    /\ UNCHANGED <<queue_mode, unfinished_tasks, stats_completed, workers, should_stop,
                   processed, killed_writing, pulled_after_stop,
                   results_queue, results>>

\* crawl_books_parallel: asyncio.gather(*workers) returns.
GatherReturns ==
    /\ queue_mode = "browser"
    /\ sched_pc = "gather"
    /\ \A w \in Workers : workers[w].pc = "stopped"
    /\ sched_pc' = "returned"
    /\ UNCHANGED <<queue_mode, book_queue, unfinished_tasks, stats_completed, workers,
                   should_stop, processed, killed_writing, pulled_after_stop,
                   results_queue, results>>

\* main: one round of "while stats['completed'] < len(book_ids) and not
\* should_stop" in which results_queue.get(timeout=1) returns a result, which is
\* appended to results; a round whose get times out changes nothing.
Collect ==
    /\ queue_mode = "batch"
    /\ sched_pc = "collect"
    /\ stats_completed < NumItems
    /\ ~should_stop[0]
    /\ results_queue # <<>>
    /\ results' = Append(results, Head(results_queue))
    /\ results_queue' = Tail(results_queue)
    /\ UNCHANGED <<queue_mode, book_queue, unfinished_tasks, stats_completed, workers,
                   sched_pc, should_stop, processed, killed_writing, pulled_after_stop>>

\* main: "while stats['completed'] < len(book_ids) and not should_stop" ends.
CollectEnds ==
    /\ queue_mode = "batch"
    /\ sched_pc = "collect"
    /\ stats_completed >= NumItems \/ should_stop[0]
    /\ sched_pc' = "joining"
    /\ UNCHANGED <<queue_mode, book_queue, unfinished_tasks, stats_completed, workers,
                   should_stop, processed, killed_writing, pulled_after_stop,
                   results_queue, results>>

\* main: worker.join(timeout=5) ran out with the worker alive: worker.terminate().
\* A worker between two books leaves get(timeout=1) before the five seconds are
\* over; a worker inside a book can take longer.
Terminate(w) ==
    /\ queue_mode = "batch"
    /\ sched_pc = "joining"
    /\ workers[w].pc \in {"fetching", "writing"}
    /\ workers' = [workers EXCEPT ![w].pc = "killed"]
    /\ killed_writing' = (killed_writing \/ workers[w].pc = "writing")
    /\ UNCHANGED <<queue_mode, book_queue, unfinished_tasks, stats_completed, sched_pc,
                   should_stop, processed, pulled_after_stop,
                   results_queue, results>>

\* main: every worker was joined or terminated; the results are saved.
MainReturns ==
    /\ queue_mode = "batch"
    /\ sched_pc = "joining"
    /\ \A w \in Workers : workers[w].pc \in {"stopped", "killed"}
    /\ sched_pc' = "returned"
    /\ UNCHANGED <<queue_mode, book_queue, unfinished_tasks, stats_completed, workers,
                   should_stop, processed, killed_writing, pulled_after_stop,
                   results_queue, results>>

\* signal_handler: SIGINT reaches the processes; each sets its own should_stop.
Interrupt ==
    /\ queue_mode = "batch"
    /\ sched_pc = "collect"
    /\ ~should_stop[0]
    /\ should_stop' = [p \in Procs |-> TRUE]
    /\ UNCHANGED <<queue_mode, book_queue, unfinished_tasks, stats_completed, workers,
                   sched_pc, processed, killed_writing, pulled_after_stop,
                   results_queue, results>>

\* C28: when a batch run that was not interrupted has returned, the results list
\* holds exactly one result for every book: its length is stats['completed'] and
\* the number of queued books.
C28_ResultsComplete ==
    (queue_mode = "batch" /\ sched_pc = "returned" /\ ~should_stop[0]) =>
        /\ Len(results) = stats_completed
        /\ Len(results) = NumItems
        /\ \A i \in Items : Cardinality({k \in DOMAIN results : results[k] = i}) = 1

\* C13 (as claimed): unless the run is interrupted, the scheduler returns with
\* every book taken off the queue by exactly one worker and every worker
\* stopped, also when handling a book raises inside a worker.
C13_SchedulerReturns ==
    <>(\/ should_stop[0]
       \/ /\ sched_pc = "returned"
          /\ \A w \in Workers : workers[w].pc = "stopped"
          /\ \A i \in 1..Len(book_queue) : book_queue[i] = 0)

\* C14 (as claimed): no worker is terminated while it writes a page, and after
\* the interrupt a worker finishes the page it is on and starts no other fetch.
C14_InterruptFinishesCurrentUnit ==
    /\ ~killed_writing
    /\ ~pulled_after_stop

(***************************************************************************)
(* _rate_limit (crawl_all_html_parallel.py 84-92, fill_missing_sections.py *)
(* 54-62): the threads of one crawler share request_lock and the dict      *)
(* last_request_time, and each calls _rate_limit before every request.     *)
(* The whole body, time.sleep included, runs inside "with request_lock".   *)
(***************************************************************************)
RateIdle ==
    /\ clock = 0
    /\ last_request_time = [w \in Workers |-> -1]
    /\ request_lock = 0
    /\ limiter = [w \in Workers |-> [pc |-> "none", wake |-> 0]]
    /\ waited_for_sleeper = FALSE

RateInit ==
    /\ clock = 0
    /\ last_request_time = [w \in Workers |-> -1]
    /\ request_lock = 0
    /\ limiter = [w \in Workers |-> [pc |-> "out", wake |-> 0]]
    /\ waited_for_sleeper = FALSE

\* The thread's own minimum delay has passed (or it has made no request yet).
DelayElapsed(w) ==
    last_request_time[w] = -1 \/ clock - last_request_time[w] >= delay

\* The thread calls _rate_limit while another thread holds request_lock:
\* "with self.request_lock" blocks.
WaitForLock(w) ==
    /\ limiter[w].pc = "out"
    /\ clock <= MaxClock - delay
    /\ request_lock # 0
    /\ limiter' = [limiter EXCEPT ![w].pc = "blocked"]
    /\ UNCHANGED <<clock, last_request_time, request_lock, waited_for_sleeper>>

\* The thread enters "with self.request_lock".  With its delay elapsed it
\* stamps last_request_time and leaves at once; otherwise it starts
\* time.sleep(delay - elapsed), the lock still held.
_rate_limit(w) ==
    /\ limiter[w].pc \in {"out", "blocked"}
    /\ limiter[w].pc = "out" => clock <= MaxClock - delay
    /\ request_lock = 0
    /\ IF DelayElapsed(w)
       THEN /\ last_request_time' = [last_request_time EXCEPT ![w] = clock]
            /\ limiter' = [limiter EXCEPT ![w].pc = "request"]
            /\ UNCHANGED request_lock
       ELSE /\ request_lock' = w
            /\ limiter' = [limiter EXCEPT
                   ![w] = [pc |-> "sleeping",
                           wake |-> clock + (delay - (clock - last_request_time[w]))]]
            /\ UNCHANGED last_request_time
    /\ UNCHANGED <<clock, waited_for_sleeper>>

\* time.sleep returns; the thread stamps last_request_time and releases the lock.
Wake(w) ==
    /\ limiter[w].pc = "sleeping"
    /\ clock >= limiter[w].wake
    /\ last_request_time' = [last_request_time EXCEPT ![w] = clock]
    /\ request_lock' = 0
    /\ limiter' = [limiter EXCEPT ![w].pc = "request"]
    /\ UNCHANGED <<clock, waited_for_sleeper>>

\* requests.get returns; the thread is back outside _rate_limit.
Request(w) ==
    /\ limiter[w].pc = "request"
    /\ limiter' = [limiter EXCEPT ![w].pc = "out"]
    /\ UNCHANGED <<clock, last_request_time, request_lock, waited_for_sleeper>>

\* One unit of time passes.
Tick ==
    /\ clock < MaxClock
    /\ clock' = clock + 1
    /\ waited_for_sleeper' =
           (\/ waited_for_sleeper
            \/ \E w \in Workers :
                   /\ limiter[w].pc = "blocked"
                   /\ DelayElapsed(w)
                   /\ request_lock # 0
                   /\ limiter[request_lock].pc = "sleeping")
    /\ UNCHANGED <<last_request_time, request_lock, limiter>>

\* C15 (as claimed): no time passes for a thread that is inside _rate_limit
\* with its own delay already elapsed while another thread sleeps there.
C15_SleepIsLocal == ~waited_for_sleeper

(***************************************************************************)
(* _fetch_url (crawl_all_html_parallel.py 94-113, resume_incomplete_books  *)
(* 92-110): up to max_retries requests with a sleep of 2 ** attempt        *)
(* between them.                                                           *)
(***************************************************************************)
\* What requests.get with raise_for_status gives: a response text, or one of
\* the requests.exceptions.RequestException the except clause catches.
Exceptions ==
    {[kind |-> "exception", text |-> e] : e \in {"Timeout", "ConnectionError", "HTTPError", "TooManyRedirects"}}

Responses == {[kind |-> "response", text |-> b] : b \in {"", "<html>"}}

Running == [kind |-> "running"]

FetchIdle ==
    /\ fetch_pc = "none"
    /\ attempt = 0
    /\ max_retries = 0
    /\ fetch_result = Running
    /\ outcomes = <<>>
    /\ waits = <<>>

FetchInit ==
    /\ fetch_pc = "attempt"
    /\ attempt = 0
    /\ max_retries \in 1..MaxRetries
    /\ fetch_result = Running
    /\ outcomes = <<>>
    /\ waits = <<>>

\* A wait that grows linearly instead: 2 * attempt.
wait_time_Linear(n) == 2 * n

\* wait_time = 2 ** attempt
wait_time(n) == 2 ^ n

\* One pass through the try block: a response returns its text; an exception
\* goes to the backoff when attempt < max_retries - 1 and returns None otherwise.
Attempt(outcome) ==
    /\ fetch_pc = "attempt"
    /\ outcomes' = Append(outcomes, outcome)
    /\ IF outcome.kind = "response"
       THEN /\ fetch_result' = [kind |-> "text", text |-> outcome.text]
            /\ fetch_pc' = "returned"
       ELSE IF attempt < max_retries - 1
       THEN /\ fetch_pc' = "backoff"
            /\ UNCHANGED fetch_result
       ELSE /\ fetch_result' = None
            /\ fetch_pc' = "returned"
    /\ UNCHANGED <<attempt, max_retries, waits>>

\* time.sleep(wait_time), then the next value of attempt.
Backoff ==
    /\ fetch_pc = "backoff"
    /\ waits' = Append(waits, wait_time(attempt))
    /\ attempt' = attempt + 1
    /\ fetch_pc' = "attempt"
    /\ UNCHANGED <<max_retries, fetch_result, outcomes>>

TierIdle ==
    /\ tier_files = {}
    /\ tier_meta = [status |-> "none", total_pages |-> 0, errors |-> 0]
    /\ tier = "none"
    /\ quality = "none"

\* Any set of section files, with any metadata beside it.
TierInit ==
    /\ tier_files \in SUBSET Sections
    /\ tier_meta \in [status : {"complete", "in_progress", "failed"},
                      total_pages : 0..MaxSection,
                      errors : 0..MaxErrors]
    /\ tier = "none"
    /\ quality = "none"

\* The body of verify_completeness's loop for one metadata file.
verify_completeness(files, meta) ==
    LET expected_pages == meta.total_pages
        actual_pages == Cardinality(files)
        missing_page_numbers ==
            IF files # {} /\ expected_pages > 0
            THEN (Min(files)..(Min(files) + expected_pages - 1)) \ files
            ELSE {}
    IN  IF meta.status = "failed" THEN "failed"
        ELSE IF actual_pages = expected_pages /\ missing_page_numbers = {}
        THEN IF meta.errors = 0 THEN "perfect" ELSE "complete_with_errors"
        ELSE "missing_pages"

\* analyze_book, for a book whose metadata file exists.
analyze_book(files, meta) ==
    IF files = {} THEN "no_sections"
    ELSE LET missing == (Min(files)..Max(files)) \ files
             has_errors == meta.errors > 0
             has_gaps == missing # {}
         IN  IF meta.status = "failed" THEN "failed"
             ELSE IF has_errors /\ has_gaps THEN "poor"
             ELSE IF has_errors \/ has_gaps THEN "moderate"
             ELSE "excellent"

VerifyCompleteness ==
    /\ tier_meta.status # "none"
    /\ tier = "none"
    /\ tier' = verify_completeness(tier_files, tier_meta)
    /\ UNCHANGED <<tier_files, tier_meta, quality>>

CheckQuality ==
    /\ tier_meta.status # "none"
    /\ quality = "none"
    /\ quality' = analyze_book(tier_files, tier_meta)
    /\ UNCHANGED <<tier_files, tier_meta, tier>>

\* The tier the classification rule gives: Failed on a failed status, else
\* Incomplete on a gap between the lowest and the highest section on disk,
\* else Degraded on an error, else Perfect.
ExpectedTier ==
    IF tier_meta.status = "failed" THEN "Failed"
    ELSE IF \E n \in Sections :
                /\ n \notin tier_files
                /\ \E a \in tier_files : a < n
                /\ \E b \in tier_files : b > n
    THEN "Incomplete"
    ELSE IF tier_meta.errors > 0 THEN "Degraded"
    ELSE "Perfect"

\* C19 (as claimed): the list verify_completeness puts a book in, and the
\* quality analyze_book gives it, is the book's tier under the rule above.
C19_TierFollowsRule ==
    /\ (tier # "none") =>
           tier = CASE ExpectedTier = "Failed" -> "failed"
                    [] ExpectedTier = "Incomplete" -> "missing_pages"
                    [] ExpectedTier = "Degraded" -> "complete_with_errors"
                    [] ExpectedTier = "Perfect" -> "perfect"
    /\ (quality # "none" /\ tier_files # {}) =>
           quality = CASE ExpectedTier = "Failed" -> "failed"
                       [] ExpectedTier = "Incomplete" -> "poor"
                       [] ExpectedTier = "Degraded" -> "moderate"
                       [] ExpectedTier = "Perfect" -> "excellent"

(***************************************************************************)
(* verify_book and has_clickable_next_button (verify_by_next_button.py).   *)
(* The files of the book are book_<id>_section_<n>.html; verify_book takes *)
(* the last of sorted(book_dir.glob(...)), which orders the paths as       *)
(* strings.                                                                *)
(***************************************************************************)
FileNumbers == 1..MaxFileNumber

\* The next button of a page: no such link, a link with the disabled
\* attribute, a link without href, or a link one can follow.
Buttons == {"none", "disabled", "no_href", "enabled"}

ButtonIdle ==
    /\ button_files = {}
    /\ last_button = "none"
    /\ verify_status = "idle"
    /\ verify_last = 0

\* Any set of section files.  Every page but the one of the highest section
\* has a next button one can follow; that page has any of the four.
ButtonInit ==
    /\ button_files \in SUBSET FileNumbers
    /\ last_button \in Buttons
    /\ verify_status = "none"
    /\ verify_last = 0

\* str(n) as the sequence of its decimal digits.
RECURSIVE Decimal(_)
Decimal(n) == IF n < 10 THEN <<n>> ELSE Decimal(n \div 10) \o <<n % 10>>

\* The part of the file name after "section_", as character codes: the digits
\* and the "." of ".html".
NameTail(n) == [i \in 1..Len(Decimal(n)) |-> 48 + Decimal(n)[i]] \o <<46>>

\* a < b for strings.
RECURSIVE StrLess(_, _)
StrLess(a, b) ==
    IF b = <<>> THEN FALSE
    ELSE IF a = <<>> THEN TRUE
    ELSE IF Head(a) # Head(b) THEN Head(a) < Head(b)
    ELSE StrLess(Tail(a), Tail(b))

\* html_files[-1] of html_files = sorted(book_dir.glob(...)).
LastOfSorted(files) ==
    CHOOSE n \in files : \A m \in files \ {n} : StrLess(NameTail(m), NameTail(n))

ButtonOf(n) == IF n = Max(button_files) THEN last_button ELSE "enabled"

has_clickable_next_button(button) == button = "enabled"

\* verify_book for a book whose directory exists.
VerifyBook ==
    /\ verify_status = "none"
    /\ IF button_files = {}
       THEN /\ verify_status' = "no_html_files"
            /\ UNCHANGED verify_last
       ELSE LET last_section == LastOfSorted(button_files)
                has_next == has_clickable_next_button(ButtonOf(last_section))
            IN  /\ verify_status' = IF has_next THEN "incomplete" ELSE "verified_complete"
                /\ verify_last' = last_section
    /\ UNCHANGED <<button_files, last_button>>

\* C20 (as claimed): verify_book looks at the file of the numerically highest
\* section and reports 'incomplete' exactly when that page has a next button
\* one can follow, 'verified_complete' otherwise.
C20_VerifierReadsHighestUnit ==
    (verify_status \in {"incomplete", "verified_complete"}) =>
        /\ verify_last = Max(button_files)
        /\ (verify_status = "incomplete") <=> (last_button = "enabled")

(***************************************************************************)
(* The specifications, one per component.                                 *)
(***************************************************************************)
NextArchive ==
    \/ \E complete \in SUBSET BookIds : \E incomplete \in SUBSET (BookIds \ complete) :
           find_sequential_books(complete, incomplete) /\ ArchFrame
    \/ \E html_files \in FileLists(MaxUnits), n \in 0..MaxUnits :
           convert_book(html_files, n) /\ ArchFrame

InitArchive == DiskIdle /\ GapInit /\ ArchInit /\ LedgerIdle /\ SaveIdle /\ ScrapeIdle /\ CrawlIdle
               /\ QueueIdle /\ RateIdle /\ FetchIdle /\ TierIdle /\ ButtonIdle /\ LoopIdle

SpecArchive == InitArchive /\ [][NextArchive]_vars

\* The archive builder run twice on the same directories.
NextRearchive ==
    \/ NextArchive
    \/ NewRun /\ ArchFrame

SpecRearchive == InitArchive /\ [][NextRearchive]_vars

NextLedger ==
    \/ \E success \in BOOLEAN : CrawlNextBook(success) /\ LedgerFrame
    \/ FinalSave /\ LedgerFrame
    \/ FutureDone /\ LedgerFrame
    \/ \E outcome \in {"ok", "fail", "raise"} : HandleFuture(outcome) /\ LedgerFrame

InitLedger == DiskIdle /\ GapInit /\ ArchInit /\ LedgerInit /\ SaveIdle /\ ScrapeIdle /\ CrawlIdle
               /\ QueueIdle /\ RateIdle /\ FetchIdle /\ TierIdle /\ ButtonIdle /\ LoopIdle

SpecLedger == InitLedger /\ [][NextLedger]_vars

NextSave ==
    \/ OpenSectionFile /\ SaveFrame
    \/ WritePiece /\ SaveFrame
    \/ CloseSectionFile /\ SaveFrame
    \/ SkipExistingSection /\ SaveFrame
    \/ EndOfBook /\ SaveFrame
    \/ Kill /\ SaveFrame
    \/ Restart /\ SaveFrame

InitSave == DiskIdle /\ GapInit /\ ArchInit /\ LedgerIdle /\ SaveInit /\ ScrapeIdle /\ CrawlIdle
               /\ QueueIdle /\ RateIdle /\ FetchIdle /\ TierIdle /\ ButtonIdle /\ LoopIdle

SpecSave == InitSave /\ [][NextSave]_vars

NextScrape ==
    \/ \E end \in 0..MaxScrapePage, res \in BOOLEAN,
          overview_page \in {None, PageContent(0, "overview")} :
           StartScrape(end, res, overview_page) /\ ScrapeFrame
    \/ ScrapeDone /\ ScrapeFrame
    \/ LoadExisting /\ ScrapeFrame
    \/ \E page_content \in scrape_page(current_page) : ScrapeNext(page_content) /\ ScrapeFrame

InitScrape == DiskIdle /\ GapInit /\ ArchInit /\ LedgerIdle /\ SaveIdle /\ ScrapeInit /\ CrawlIdle
               /\ QueueIdle /\ RateIdle /\ FetchIdle /\ TierIdle /\ ButtonIdle /\ LoopIdle

SpecScrape == InitScrape /\ [][NextScrape]_vars

NextLoop ==
    \/ \E end \in 0..MaxScrapePage : LoopStart(end) /\ LoopFrame
    \/ \E got \in BOOLEAN : LoopStep(got) /\ LoopFrame

InitLoop ==
    DiskIdle /\ GapInit /\ ArchInit /\ LedgerIdle /\ SaveIdle /\ ScrapeIdle /\ CrawlIdle
        /\ QueueIdle /\ RateIdle /\ FetchIdle /\ TierIdle /\ ButtonIdle /\ LoopInit

SpecLoop ==
    InitLoop /\ [][NextLoop]_vars /\ WF_vars(\E got \in BOOLEAN : LoopStep(got) /\ LoopFrame)

\* Calls on a directory that may be damaged between them; one call is followed
\* after the damage.
NextRecover ==
    \/ \E end \in 0..MaxScrapePage, res \in BOOLEAN :
           /\ corrupted.pages = {} \/ run = corrupted.at
           /\ StartScrape(end, res, None) /\ ScrapeFrame
    \/ ScrapeDone /\ ScrapeFrame
    \/ LoadExisting /\ ScrapeFrame
    \/ \E page_content \in scrape_page(current_page) : ScrapeNext(page_content) /\ ScrapeFrame
    \/ \E n \in ScrapePages, file \in CorruptFiles : Damage(n, file) /\ ScrapeFrame

SpecRecover == InitScrape /\ [][NextRecover]_vars

NextCrawl ==
    \/ \E toc_html \in {None} \cup {[kind |-> "toc", first |-> k] : k \in 0..MaxSection} :
           ThreadedStart(toc_html) /\ CrawlFrame
    \/ ResumeStart /\ CrawlFrame
    \/ \E html \in CrawlResponses(current_url) : FollowPage(html) /\ CrawlFrame
    \/ \E main_html \in {None, [kind |-> "other", len |-> 600, next |-> 0]} :
           HttpStart(main_html) /\ CrawlFrame
    \/ \E page_html \in CrawlResponses(current_url) : HttpPage(page_html) /\ CrawlFrame
    \/ \E content \in CrawlResponses(1) :
           \E solved \in SolvedFor(content) : BrowserStart(content, solved) /\ CrawlFrame
    \/ BrowserSkip /\ CrawlFrame
    \/ \E content \in CrawlResponses(current_url) :
           \E solved \in SolvedFor(content) : BrowserPage(content, solved) /\ CrawlFrame

InitCrawl ==
    DiskIdle /\ GapInit /\ ArchInit /\ LedgerIdle /\ SaveIdle /\ ScrapeIdle /\ CrawlInit
        /\ QueueIdle /\ RateIdle /\ FetchIdle /\ TierIdle /\ ButtonIdle /\ LoopIdle

SpecCrawl == InitCrawl /\ [][NextCrawl]_vars

NextQueue ==
    \/ \E w \in Workers : GetBook(w) /\ QueueFrame
    \/ \E w \in Workers : LeaveLoop(w) /\ QueueFrame
    \/ \E w \in Workers : FetchUnit(w) /\ QueueFrame
    \/ \E w \in Workers : WriteUnit(w) /\ QueueFrame
    \/ \E w \in Workers : WorkerError(w) /\ QueueFrame
    \/ JoinReturns /\ QueueFrame
    \/ GatherReturns /\ QueueFrame
    \/ Collect /\ QueueFrame
    \/ CollectEnds /\ QueueFrame
    \/ \E w \in Workers : Terminate(w) /\ QueueFrame
    \/ MainReturns /\ QueueFrame
    \/ Interrupt /\ QueueFrame

\* The steps of the workers and of the scheduler, without the signal.
QueueProgram ==
    /\ \/ \E w \in Workers : GetBook(w) \/ LeaveLoop(w) \/ FetchUnit(w) \/ WriteUnit(w)
                                   \/ WorkerError(w) \/ Terminate(w)
       \/ JoinReturns \/ GatherReturns \/ Collect \/ CollectEnds \/ MainReturns
    /\ QueueFrame

InitQueue ==
    DiskIdle /\ GapInit /\ ArchInit /\ LedgerIdle /\ SaveIdle /\ ScrapeIdle /\ CrawlIdle
        /\ QueueInit /\ RateIdle /\ FetchIdle /\ TierIdle /\ ButtonIdle /\ LoopIdle

\* The processes keep running: a step of the program that can be taken is
\* taken.  Nothing obliges the signal to arrive.
SpecQueue == InitQueue /\ [][NextQueue]_vars /\ WF_vars(QueueProgram)

NextRate ==
    \/ \E w \in Workers : WaitForLock(w) /\ RateFrame
    \/ \E w \in Workers : _rate_limit(w) /\ RateFrame
    \/ \E w \in Workers : Wake(w) /\ RateFrame
    \/ \E w \in Workers : Request(w) /\ RateFrame
    \/ Tick /\ RateFrame

InitRate ==
    DiskIdle /\ GapInit /\ ArchInit /\ LedgerIdle /\ SaveIdle /\ ScrapeIdle /\ CrawlIdle
        /\ QueueIdle /\ RateInit /\ FetchIdle /\ TierIdle /\ ButtonIdle /\ LoopIdle

SpecRate == InitRate /\ [][NextRate]_vars

NextFetch ==
    \/ \E outcome \in Responses \cup Exceptions : Attempt(outcome) /\ FetchFrame
    \/ Backoff /\ FetchFrame

InitFetch ==
    DiskIdle /\ GapInit /\ ArchInit /\ LedgerIdle /\ SaveIdle /\ ScrapeIdle /\ CrawlIdle
        /\ QueueIdle /\ RateIdle /\ FetchInit /\ TierIdle /\ ButtonIdle /\ LoopIdle

SpecFetch == InitFetch /\ [][NextFetch]_vars

NextTier ==
    \/ VerifyCompleteness /\ TierFrame
    \/ CheckQuality /\ TierFrame

InitTier ==
    DiskIdle /\ GapInit /\ ArchInit /\ LedgerIdle /\ SaveIdle /\ ScrapeIdle /\ CrawlIdle
        /\ QueueIdle /\ RateIdle /\ FetchIdle /\ TierInit /\ ButtonIdle /\ LoopIdle

SpecTier == InitTier /\ [][NextTier]_vars

NextButton ==
    VerifyBook /\ ButtonFrame

InitButton ==
    DiskIdle /\ GapInit /\ ArchInit /\ LedgerIdle /\ SaveIdle /\ ScrapeIdle /\ CrawlIdle
        /\ QueueIdle /\ RateIdle /\ FetchIdle /\ TierIdle /\ ButtonInit /\ LoopIdle

SpecButton == InitButton /\ [][NextButton]_vars

NextGap ==
    \/ AnalyzeBook /\ GapFrame
    \/ ProcessBook /\ GapFrame
    \/ \E html \in RepairResponses : FillSection(html) /\ GapFrame
    \/ FillReturn /\ GapFrame
    \/ \E html \in RepairResponses : crawl_section_1(html) /\ GapFrame

InitGap == DiskInit /\ GapInit /\ ArchInit /\ LedgerIdle /\ SaveIdle /\ ScrapeIdle /\ CrawlIdle
               /\ QueueIdle /\ RateIdle /\ FetchIdle /\ TierIdle /\ ButtonIdle /\ LoopIdle

SpecGap == InitGap /\ [][NextGap]_vars

=============================================================================
